---- MODULE Spec2Model ----
(***************************************************************************)
(* PacmanIST server: the dispatch queue between the host task (main) and   *)
(* the worker pool, the score board and the SIGUSR1 score report.          *)
(* Modelled from Project_2/src/board.c (server part, lines 1133-1528).     *)
(***************************************************************************)
EXTENDS Integers, Sequences, FiniteSets, TLC

(* ---- bounds of the model ---- *)
MaxGames == 2        \* largest max_games (argv[2]) explored
MaxClients == 3      \* clients that write to the registration FIFO
MaxLevels == 1       \* largest number of level files found by a worker
MaxScore == 1        \* largest number of points a player collects
MaxScoreboard == 2   \* length of scoreboard[] in the server runs (100 in the source)
MaxSignals == 1      \* SIGUSR1 signals sent to the server process
ReportBoardLen == 6  \* length of scoreboard[] when the report is checked alone
MaxGhosts == 1       \* largest number of ghosts of a level
MaxStages == 3       \* largest number of level files of the session whose levels are followed one by one
MaxMsgs == 2         \* messages a client writes to its request pipe
MaxWidth == 61       \* widest board of a level file
MaxHeight == 40      \* tallest board of a level file
MaxPasso == 1        \* largest PASSO of a pacman's file
NotifCapacity == 1   \* updates a notification pipe holds before a write to it waits

(* ---- program constants ---- *)
NEXT_LEVEL == 1
QUIT_GAME == 2
LOAD_BACKUP == 3
TOP_SCORES == 5

Main == 0
Workers == 1..MaxGames
Threads == {Main} \cup Workers
Clients == 1..MaxClients
NoThread == -1

VARIABLES
  buffer_size,      \* int buffer_size = max_games
  session_buffer,   \* game_session_t session_buffer[buffer_size]; a record is the client's pipe pair, named by the client
  buffer_in,        \* next slot the producer writes
  buffer_out,       \* next slot a consumer reads
  sem_empty,        \* value of sem_empty
  sem_full,         \* value of sem_full
  buffer_mutex,     \* holder of buffer_mutex, NoThread when free
  scoreboard,       \* score_entry_t scoreboard[]
  scoreboard_mutex, \* holder of scoreboard_mutex, NoThread when free
  next_client_id,   \* int next_client_id
  fifo,             \* messages written to the registration FIFO and not yet read
  unsent,           \* clients that have not written to the registration FIFO yet
  mpc,              \* position of main
  created,          \* create_threads: number of workers created so far
  req,              \* main: connect_req_t req
  wpc,              \* position of each worker
  wl,               \* locals of each worker
  sigblocked,       \* per thread: SIGUSR1 is in the thread's signal mask
  hpc,              \* per thread: position inside handle_sigusr1, "none" when not in the handler
  signals,          \* SIGUSR1 signals sent so far
  score_log,        \* contents of score_log.txt: the entries of the last report
  logged,           \* score_log.txt has been written
  enqueued,         \* history: records written into the buffer, in order
  dequeued,         \* history: records copied out of the buffer, in order
  accepted,         \* history: clients that were sent a connect response with result 0
  updated,          \* history: clients that were sent a game state update
  closed,           \* history: sessions the worker has left (pipes closed or session abandoned)
  proc,             \* the server process: "running", or how it ended
  fifo_name,        \* the registration FIFO's name exists in the file system
  exit_status,      \* exit status of the server process, -1 while it runs
  client,           \* the client of the session in service: "up", "killed" (its FIFOs stay) or "left" (FIFOs unlinked)
  req_pipe,         \* bytes written to the session's request pipe and not yet read
  sent,             \* messages the client has written to the request pipe
  update_msg,       \* the game_state_msg_t in the notification pipe: width, height and the cells of board_data written
  notif_pipe,       \* per client: updates in its notification pipe that it has not read
  client_size,      \* client: int size of the update it decodes, -1 while it waits in read()
  gpc,              \* position of each thread of the stage, "none" when it does not exist
  state_lock,       \* board.state_lock: the thread holding it for writing, the threads holding it for reading
  game_board,       \* board_t *game_board of the stage: shutdown, next_user_move, pacman, level data
  lmove,            \* input_listener_thread: move_req_t move and the result n of the last read
  play,             \* pacman_thread: the command chosen for the next move_pacman
  retval,           \* pacman_thread: *retval
  flag_by,          \* history: who changed board.shutdown from 0 to 1 in this stage
  sent_states,      \* history: the game_state values of the updates written to the notification pipe in this stage
  left_by,          \* history: how pacman_thread left its loop in this stage (portal, dead, top, flag)
  written,          \* history: keys the listener wrote to next_user_move in this stage, in order
  overwritten,      \* history: keys that were replaced in next_user_move before pacman_thread took them
  played            \* history: the commands passed to move_pacman in this stage, in order

vars == <<buffer_size, session_buffer, buffer_in, buffer_out, sem_empty, sem_full,
          buffer_mutex, scoreboard, scoreboard_mutex, next_client_id, fifo, unsent,
          mpc, created, req, wpc, wl, sigblocked, hpc, signals, score_log, logged,
          enqueued, dequeued, accepted, updated, closed,
          proc, fifo_name, exit_status,
          client, req_pipe, sent, update_msg, client_size, notif_pipe, gpc, state_lock, game_board, lmove, play, retval,
          flag_by, sent_states, left_by, written, overwritten, played>>

queueVars == <<buffer_size, session_buffer, buffer_in, buffer_out, sem_empty, sem_full, buffer_mutex>>
boardVars == <<scoreboard, scoreboard_mutex, next_client_id>>
mainVars == <<mpc, created, req>>
sigVars == <<sigblocked, hpc, signals, score_log, logged>>
histVars == <<enqueued, dequeued, accepted, updated, closed>>
clientVars == <<fifo, unsent>>
procVars == <<proc, fifo_name, exit_status>>
stageVars == <<gpc, state_lock, game_board, lmove, play, retval, flag_by, sent_states, left_by, written, overwritten, played>>
pipeVars == <<client, req_pipe, sent, update_msg, client_size, notif_pipe>>
gameVars == <<stageVars, pipeVars>>

(* ---- data ---- *)
NoSession == 0   \* a calloc'ed, never written slot
EmptyEntry == [client_id |-> 0, score |-> 0, active |-> 0]
InitLocals == [session |-> NoSession, level_files |-> <<>>, ran |-> <<>>,
               level_count |-> 0, current_level |-> 0,
               game_result |-> NEXT_LEVEL, accumulated_points |-> 0,
               my_client_id |-> 0, my_scoreboard_idx |-> -1,
               notif_fd |-> FALSE, req_fd |-> FALSE]

\* threads of a stage: the worker inside run_game_logic and the threads it creates
Runner == 0
update_tid == 1
pacman_tid == 2
listener_tid == 3
ghost_tids == 4..(3 + MaxGhosts)
StageThreads == {update_tid, pacman_tid, listener_tid} \cup ghost_tids

NoKey == 32      \* ' ' in next_user_move and in a command: no key
NulKey == 0      \* '\0': the byte load_level's memset and calloc leave in next_user_move
NoBoard == [shutdown |-> 0, next_user_move |-> NoKey, alive |-> 0, points |-> 0,
            level_finished |-> 0, n_moves |-> 0, n_ghosts |-> 0, passo |-> 0, waiting |-> 0]
NoMove == [n |-> -1, op_code |-> 0, key |-> NoKey]
NoMsg == [width |-> 0, height |-> 0, cells |-> 0]   \* no update in the notification pipe

(* ---- semaphores and mutexes ---- *)
\* a sem_wait that returns without waiting for a permit
sem_wait_never_blocks(s) == TRUE

sem_wait_ok(s) == s > 0
sem_wait(s) == s - 1
\* a sem_post that releases two permits
sem_post_twice(s) == s + 2

sem_post(s) == s + 1

\* thread t runs its own code: the process lives and t is in no signal handler
Running(t) == proc = "running" /\ hpc[t] = "none"

(* ---- state after main has installed the signal handlers and made the FIFO ---- *)
\* main has ignored SIGPIPE, installed the handlers and called mkfifo
InitProc ==
  /\ proc = "running"
  /\ fifo_name = TRUE
  /\ exit_status = -1

\* no stage is running and the client of the next session has its pipes open
InitGame ==
  /\ client = [c \in Clients |-> "up"]
  /\ req_pipe = [c \in Clients |-> <<>>]
  /\ sent = [c \in Clients |-> 0]
  /\ update_msg = NoMsg
  /\ client_size = -1
  /\ notif_pipe = [c \in Clients |-> 0]
  /\ gpc = [t \in StageThreads |-> "none"]
  /\ state_lock = [writer |-> NoThread, readers |-> {}]
  /\ game_board = NoBoard
  /\ lmove = NoMove
  /\ play = NoKey
  /\ retval = QUIT_GAME
  /\ flag_by = "none"
  /\ sent_states = {}
  /\ left_by = "none"
  /\ written = <<>>
  /\ overwritten = {}
  /\ played = <<>>

Init ==
  /\ buffer_size \in 1..MaxGames
  /\ session_buffer = [i \in 0..(buffer_size - 1) |-> NoSession]
  /\ buffer_in = 0
  /\ buffer_out = 0
  /\ sem_empty = buffer_size
  /\ sem_full = 0
  /\ buffer_mutex = NoThread
  /\ scoreboard = [i \in 1..MaxScoreboard |-> EmptyEntry]
  /\ scoreboard_mutex = NoThread
  /\ next_client_id = 1
  /\ fifo = <<>>
  /\ unsent = Clients
  /\ mpc = "create_threads"
  /\ created = 0
  /\ req = [kind |-> "none", client |-> 0]
  /\ wpc = [w \in Workers |-> "uncreated"]
  /\ wl = [w \in Workers |-> InitLocals]
  /\ sigblocked = [t \in Threads |-> FALSE]
  /\ hpc = [t \in Threads |-> "none"]
  /\ signals = 0
  /\ score_log = <<>>
  /\ logged = FALSE
  /\ enqueued = <<>>
  /\ dequeued = <<>>
  /\ accepted = {}
  /\ updated = {}
  /\ closed = {}
  /\ InitProc
  /\ InitGame


(* ---- clients: each writes one message to the registration FIFO ---- *)
MsgKinds == {"connect", "badop", "short"}

\* clients are interchangeable: they are numbered in the order in which they write
ClientSend(c, k) ==
  /\ c \in unsent
  /\ \A d \in unsent : c <= d
  /\ unsent' = unsent \ {c}
  /\ fifo' = Append(fifo, [kind |-> k, client |-> c])
  /\ UNCHANGED <<procVars, gameVars, queueVars, boardVars, mainVars, wpc, wl, sigVars, histVars>>

(* ---- main: create_threads and the accept loop ---- *)
\* a pool of MaxGames workers whatever max_games is
create_threads_loop_fixed_pool == created < MaxGames

\* for (int i = 0; i < buffer_size; i++) in create_threads
create_threads_loop == created < buffer_size

\* create_threads: one pthread_create; the new thread inherits main's signal mask
CreateThread ==
  /\ Running(Main)
  /\ mpc = "create_threads"
  /\ create_threads_loop
  /\ created' = created + 1
  /\ wpc' = [wpc EXCEPT ![created + 1] = "start"]
  /\ sigblocked' = [sigblocked EXCEPT ![created + 1] = sigblocked[Main]]
  /\ UNCHANGED <<procVars, gameVars, queueVars, boardVars, clientVars, mpc, req, wl, hpc, signals,
                 score_log, logged, histVars>>

\* end of create_threads, open(global_fifo_name, O_RDWR)
MainOpenFifo ==
  /\ Running(Main)
  /\ mpc = "create_threads"
  /\ ~create_threads_loop
  /\ mpc' = "read"
  /\ UNCHANGED <<procVars, gameVars, queueVars, boardVars, clientVars, created, req, wpc, wl, sigVars, histVars>>

\* read(fifo_fd, &req, sizeof(connect_req_t)) and the checks that follow it
MainRead ==
  /\ Running(Main)
  /\ mpc = "read"
  /\ fifo # <<>>
  /\ fifo' = Tail(fifo)
  /\ IF Head(fifo).kind = "connect"
       THEN /\ req' = Head(fifo)
            /\ mpc' = "respond"
       ELSE UNCHANGED <<req, mpc>>
  /\ UNCHANGED <<procVars, gameVars, queueVars, boardVars, unsent, created, wpc, wl, sigVars, histVars>>

\* when open(req.notif_pipe, O_WRONLY) returns: with the client at the other
\* end it succeeds or fails; with the FIFO unlinked it fails; with the FIFO in
\* place and no process that opens it for reading it does not return
MainOpenReturns(ok) ==
  CASE client[req.client] = "up" -> TRUE
    [] client[req.client] = "left" -> ~ok
    [] OTHER -> FALSE

\* an accept loop that answers the client and forgets to enqueue the session
MainRespond_skip_enqueue(ok) ==
  /\ Running(Main)
  /\ mpc = "respond"
  /\ accepted' = IF ok THEN accepted \cup {req.client} ELSE accepted
  /\ mpc' = "read"
  /\ UNCHANGED <<procVars, gameVars, queueVars, boardVars, clientVars, created, req, wpc, wl, sigVars,
                 enqueued, dequeued, updated, closed>>

\* open(req.notif_pipe, O_WRONLY), which fails when the pipe is gone; then
\* write(client_fd, &resp) with result 0 and close(client_fd)
MainRespond(ok) ==
  /\ Running(Main)
  /\ mpc = "respond"
  /\ MainOpenReturns(ok)
  /\ IF ok
       THEN /\ accepted' = accepted \cup {req.client}
            /\ mpc' = "sem_wait"
       ELSE /\ mpc' = "read"
            /\ UNCHANGED accepted
  /\ UNCHANGED <<procVars, gameVars, queueVars, boardVars, clientVars, created, req, wpc, wl, sigVars,
                 enqueued, dequeued, updated, closed>>

\* sem_wait(&sem_empty)
MainSemWait ==
  /\ Running(Main)
  /\ mpc = "sem_wait"
  /\ sem_wait_ok(sem_empty)
  /\ sem_empty' = sem_wait(sem_empty)
  /\ mpc' = "lock"
  /\ UNCHANGED <<procVars, gameVars, buffer_size, session_buffer, buffer_in, buffer_out, sem_full, buffer_mutex,
                 boardVars, clientVars, created, req, wpc, wl, sigVars, histVars>>

\* pthread_mutex_lock(&buffer_mutex)
MainLock ==
  /\ Running(Main)
  /\ mpc = "lock"
  /\ buffer_mutex = NoThread
  /\ buffer_mutex' = Main
  /\ mpc' = "enqueue"
  /\ UNCHANGED <<procVars, gameVars, buffer_size, session_buffer, buffer_in, buffer_out, sem_empty, sem_full,
                 boardVars, clientVars, created, req, wpc, wl, sigVars, histVars>>

NextIn(i) == (i + 1) % buffer_size

\* copy the pipe names into session_buffer[buffer_in], advance buffer_in, unlock
MainEnqueue ==
  /\ Running(Main)
  /\ mpc = "enqueue"
  /\ session_buffer' = [session_buffer EXCEPT ![buffer_in] = req.client]
  /\ buffer_in' = NextIn(buffer_in)
  /\ buffer_mutex' = NoThread
  /\ enqueued' = Append(enqueued, req.client)
  /\ mpc' = "post"
  /\ UNCHANGED <<procVars, gameVars, buffer_size, buffer_out, sem_empty, sem_full, boardVars, clientVars,
                 created, req, wpc, wl, sigVars, dequeued, accepted, updated, closed>>

\* sem_post(&sem_full)
MainPost ==
  /\ Running(Main)
  /\ mpc = "post"
  /\ sem_full' = sem_post(sem_full)
  /\ mpc' = "read"
  /\ UNCHANGED <<procVars, gameVars, buffer_size, session_buffer, buffer_in, buffer_out, sem_empty, buffer_mutex,
                 boardVars, clientVars, created, req, wpc, wl, sigVars, histVars>>

MainStep ==
  \/ CreateThread
  \/ MainOpenFifo
  \/ MainRead
  \/ \E ok \in BOOLEAN : MainRespond(ok)
  \/ MainSemWait
  \/ MainLock
  \/ MainEnqueue
  \/ MainPost


(* ---- worker_task ---- *)
\* pthread_sigmask(SIG_BLOCK, {SIGUSR1}) at the top of worker_task
WorkerMask(w) ==
  /\ Running(w)
  /\ wpc[w] = "start"
  /\ sigblocked' = [sigblocked EXCEPT ![w] = TRUE]
  /\ wpc' = [wpc EXCEPT ![w] = "sem_wait"]
  /\ UNCHANGED <<procVars, gameVars, queueVars, boardVars, clientVars, mainVars, wl, hpc, signals,
                 score_log, logged, histVars>>

\* sem_wait(&sem_full)
WorkerSemWait(w) ==
  /\ Running(w)
  /\ wpc[w] = "sem_wait"
  /\ sem_wait_ok(sem_full)
  /\ sem_full' = sem_wait(sem_full)
  /\ wpc' = [wpc EXCEPT ![w] = "lock"]
  /\ UNCHANGED <<procVars, gameVars, buffer_size, session_buffer, buffer_in, buffer_out, sem_empty, buffer_mutex,
                 boardVars, clientVars, mainVars, wl, sigVars, histVars>>

\* pthread_mutex_lock(&buffer_mutex)
WorkerLock(w) ==
  /\ Running(w)
  /\ wpc[w] = "lock"
  /\ buffer_mutex = NoThread
  /\ buffer_mutex' = w
  /\ wpc' = [wpc EXCEPT ![w] = "dequeue"]
  /\ UNCHANGED <<procVars, gameVars, buffer_size, session_buffer, buffer_in, buffer_out, sem_empty, sem_full,
                 boardVars, clientVars, mainVars, wl, sigVars, histVars>>

\* a consumer index that is never advanced
NextOut_stuck(i) == i

NextOut(i) == (i + 1) % buffer_size

\* a consumer that takes the slot written last instead of session_buffer[buffer_out]
WorkerDequeue_newest(w) ==
  /\ Running(w)
  /\ wpc[w] = "dequeue"
  /\ LET last == (buffer_in + buffer_size - 1) % buffer_size IN
       /\ wl' = [wl EXCEPT ![w].session = session_buffer[last]]
       /\ dequeued' = Append(dequeued, session_buffer[last])
  /\ buffer_out' = NextOut(buffer_out)
  /\ buffer_mutex' = NoThread
  /\ wpc' = [wpc EXCEPT ![w] = "post"]
  /\ UNCHANGED <<procVars, gameVars, buffer_size, session_buffer, buffer_in, sem_empty, sem_full, boardVars,
                 clientVars, mainVars, sigVars, enqueued, accepted, updated, closed>>

\* session = session_buffer[buffer_out], advance buffer_out, unlock
WorkerDequeue(w) ==
  /\ Running(w)
  /\ wpc[w] = "dequeue"
  /\ wl' = [wl EXCEPT ![w].session = session_buffer[buffer_out]]
  /\ buffer_out' = NextOut(buffer_out)
  /\ buffer_mutex' = NoThread
  /\ dequeued' = Append(dequeued, session_buffer[buffer_out])
  /\ wpc' = [wpc EXCEPT ![w] = "post"]
  /\ UNCHANGED <<procVars, gameVars, buffer_size, session_buffer, buffer_in, sem_empty, sem_full, boardVars,
                 clientVars, mainVars, sigVars, enqueued, accepted, updated, closed>>

\* a consumer that forgets sem_post(&sem_empty)
WorkerPost_lost(w) ==
  /\ Running(w)
  /\ wpc[w] = "post"
  /\ wpc' = [wpc EXCEPT ![w] = "open"]
  /\ UNCHANGED <<procVars, gameVars, queueVars, boardVars, clientVars, mainVars, wl, sigVars, histVars>>

\* sem_post(&sem_empty)
WorkerPost(w) ==
  /\ Running(w)
  /\ wpc[w] = "post"
  /\ sem_empty' = sem_post(sem_empty)
  /\ wpc' = [wpc EXCEPT ![w] = "open"]
  /\ UNCHANGED <<procVars, gameVars, buffer_size, session_buffer, buffer_in, buffer_out, sem_full, buffer_mutex,
                 boardVars, clientVars, mainVars, wl, sigVars, histVars>>

(* ---- the level files of a session ---- *)
\* the names of n level files in the order readdir returns them; a smaller
\* number is the name that strcmp puts first
Listings(n) == {f \in [1..n -> 1..n] : \A i, j \in 1..n : f[i] = f[j] => i = j}

\* the three strncpy of sort_level_files
SwapFiles(files, i, j) == [files EXCEPT ![i] = files[j], ![j] = files[i]]

RECURSIVE sort_inner(_, _, _)
\* for (j = i + 1; j < count; j++) if (strcmp(files[i], files[j]) > 0) swap
sort_inner(files, i, j) ==
  IF j > Len(files) THEN files
  ELSE sort_inner(IF files[i] > files[j] THEN SwapFiles(files, i, j) ELSE files, i, j + 1)

RECURSIVE sort_outer(_, _)
\* for (i = 0; i < count - 1; i++)
sort_outer(files, i) ==
  IF i >= Len(files) THEN files
  ELSE sort_outer(sort_inner(files, i, i + 1), i + 1)

\* a worker that plays the level files in the order readdir returned them
sort_level_files_readdir_order(files) == files

sort_level_files(files) == sort_outer(files, 1)

\* what can happen between the dequeue and the registration in the score board:
\* opendir fails, no level file is found, open(notif_pipe) fails, open(req_pipe)
\* fails (and notif_fd is closed), or both pipes are open
OpenOutcomes == {"nodir", "nolevels", "nonotif", "noreq", "ok"}

\* a worker that takes its client id before it looks for the levels
WorkerOpen_id_first(w, outcome, n) ==
  /\ Running(w)
  /\ wpc[w] = "open"
  /\ next_client_id' = next_client_id + 1
  /\ IF outcome = "ok"
       THEN /\ wpc' = [wpc EXCEPT ![w] = "register_lock"]
            /\ \E listing \in Listings(n) :
                 wl' = [wl EXCEPT ![w].level_files = sort_level_files(listing),
                                  ![w].level_count = n,
                                  ![w].notif_fd = TRUE, ![w].req_fd = TRUE]
            /\ UNCHANGED closed
       ELSE /\ wpc' = [wpc EXCEPT ![w] = "sem_wait"]
            /\ wl' = [wl EXCEPT ![w] = InitLocals]
            /\ closed' = closed \cup {wl[w].session}
  /\ UNCHANGED <<procVars, gameVars, queueVars, scoreboard, scoreboard_mutex, clientVars, mainVars,
                 sigVars, enqueued, dequeued, accepted, updated>>

\* opendir/readdir/sort_level_files, open(session.notif_pipe, O_WRONLY),
\* open(session.req_pipe, O_RDONLY); every failure is a `continue`
WorkerOpen(w, outcome, n) ==
  /\ Running(w)
  /\ wpc[w] = "open"
  /\ IF outcome = "ok"
       THEN /\ wpc' = [wpc EXCEPT ![w] = "register_lock"]
            /\ \E listing \in Listings(n) :
                 wl' = [wl EXCEPT ![w].level_files = sort_level_files(listing),
                                  ![w].level_count = n,
                                  ![w].notif_fd = TRUE, ![w].req_fd = TRUE]
            /\ UNCHANGED closed
       ELSE /\ wpc' = [wpc EXCEPT ![w] = "sem_wait"]
            /\ wl' = [wl EXCEPT ![w] = InitLocals]
            /\ closed' = closed \cup {wl[w].session}
  /\ UNCHANGED <<procVars, gameVars, queueVars, boardVars, clientVars, mainVars, sigVars,
                 enqueued, dequeued, accepted, updated>>

\* pthread_mutex_lock(&scoreboard_mutex) at any of the three places of worker_task
WorkerBoardLock(w, from, to) ==
  /\ Running(w)
  /\ wpc[w] = from
  /\ scoreboard_mutex = NoThread
  /\ scoreboard_mutex' = w
  /\ wpc' = [wpc EXCEPT ![w] = to]
  /\ UNCHANGED <<procVars, gameVars, queueVars, scoreboard, next_client_id, clientVars, mainVars, wl,
                 sigVars, histVars>>

\* first index i with !scoreboard[i].active, -1 when every entry is active
FreeSlot(board) ==
  IF \E i \in DOMAIN board : board[i].active = 0
    THEN CHOOSE i \in DOMAIN board :
           /\ board[i].active = 0
           /\ \A j \in DOMAIN board : j < i => board[j].active # 0
    ELSE -1

\* my_client_id = next_client_id++, take the first inactive entry, unlock
WorkerRegister(w) ==
  /\ Running(w)
  /\ wpc[w] = "register"
  /\ next_client_id' = next_client_id + 1
  /\ LET i == FreeSlot(scoreboard) IN
       /\ scoreboard' = IF i = -1 THEN scoreboard
                        ELSE [scoreboard EXCEPT ![i] =
                               [client_id |-> next_client_id, score |-> 0, active |-> 1]]
       /\ wl' = [wl EXCEPT ![w].my_client_id = next_client_id,
                           ![w].my_scoreboard_idx = i]
  /\ scoreboard_mutex' = NoThread
  /\ wpc' = [wpc EXCEPT ![w] = "level_loop"]
  /\ UNCHANGED <<procVars, gameVars, queueVars, clientVars, mainVars, sigVars, histVars>>

\* a worker that leaves both descriptors open when the levels are over
WorkerLevelLoop_keeps_fds(w, loaded) ==
  /\ Running(w)
  /\ wpc[w] = "level_loop"
  /\ IF wl[w].current_level < wl[w].level_count /\ wl[w].game_result = NEXT_LEVEL /\ loaded
       THEN /\ wpc' = [wpc EXCEPT ![w] = "run_game"]
            /\ wl' = [wl EXCEPT ![w].ran = Append(@, wl[w].level_files[wl[w].current_level + 1])]
            /\ UNCHANGED closed
       ELSE /\ closed' = closed \cup {wl[w].session}
            /\ IF wl[w].my_scoreboard_idx >= 0
                 THEN /\ wl' = wl
                      /\ wpc' = [wpc EXCEPT ![w] = "final_lock"]
                 ELSE /\ wl' = [wl EXCEPT ![w] = InitLocals]
                      /\ wpc' = [wpc EXCEPT ![w] = "sem_wait"]
  /\ UNCHANGED <<procVars, gameVars, queueVars, boardVars, clientVars, mainVars, sigVars,
                 enqueued, dequeued, accepted, updated>>

\* while (current_level < level_count && game_result == NEXT_LEVEL) with
\* load_level, which may fail; when the loop ends, close(notif_fd), close(req_fd)
WorkerLevelLoop(w, loaded) ==
  /\ Running(w)
  /\ wpc[w] = "level_loop"
  /\ IF wl[w].current_level < wl[w].level_count /\ wl[w].game_result = NEXT_LEVEL /\ loaded
       THEN /\ wpc' = [wpc EXCEPT ![w] = "run_game"]
            /\ wl' = [wl EXCEPT ![w].ran = Append(@, wl[w].level_files[wl[w].current_level + 1])]
            /\ UNCHANGED closed
       ELSE /\ closed' = closed \cup {wl[w].session}
            /\ IF wl[w].my_scoreboard_idx >= 0
                 THEN /\ wl' = [wl EXCEPT ![w].notif_fd = FALSE, ![w].req_fd = FALSE]
                      /\ wpc' = [wpc EXCEPT ![w] = "final_lock"]
                 ELSE /\ wl' = [wl EXCEPT ![w] = InitLocals]
                      /\ wpc' = [wpc EXCEPT ![w] = "sem_wait"]
  /\ UNCHANGED <<procVars, gameVars, queueVars, boardVars, clientVars, mainVars, sigVars,
                 enqueued, dequeued, accepted, updated>>

GameResults == {NEXT_LEVEL, QUIT_GAME, LOAD_BACKUP}

\* a worker that starts the level and goes back to the queue without waiting for it
WorkerRunGame_detached(w) ==
  /\ Running(w)
  /\ wpc[w] = "run_game"
  /\ updated' = updated \cup {wl[w].session}
  /\ wl' = [wl EXCEPT ![w] = InitLocals]
  /\ wpc' = [wpc EXCEPT ![w] = "sem_wait"]
  /\ UNCHANGED <<procVars, gameVars, queueVars, boardVars, clientVars, mainVars, sigVars,
                 enqueued, dequeued, accepted, closed>>

\* run_game_logic starts the threads of the level; update_thread sends the board
\* to the client before anything else
WorkerRunGame(w) ==
  /\ Running(w)
  /\ wpc[w] = "run_game"
  /\ updated' = updated \cup {wl[w].session}
  /\ wpc' = [wpc EXCEPT ![w] = "join_game"]
  /\ UNCHANGED <<procVars, gameVars, queueVars, boardVars, clientVars, mainVars, wl, sigVars,
                 enqueued, dequeued, accepted, closed>>

\* run_game_logic returns: the level ends with a result and with the points the
\* player has by then; accumulated_points = board.pacmans[0].points; without a
\* score board entry the worker goes on to unload_level and current_level++
WorkerJoinGame(w, result, points) ==
  /\ Running(w)
  /\ wpc[w] = "join_game"
  /\ points >= wl[w].accumulated_points
  /\ IF wl[w].my_scoreboard_idx >= 0
       THEN /\ wl' = [wl EXCEPT ![w].game_result = result, ![w].accumulated_points = points]
            /\ wpc' = [wpc EXCEPT ![w] = "score_lock"]
       ELSE /\ wl' = [wl EXCEPT ![w].game_result = result, ![w].accumulated_points = points,
                                ![w].current_level = @ + 1]
            /\ wpc' = [wpc EXCEPT ![w] = "level_loop"]
  /\ UNCHANGED <<procVars, gameVars, queueVars, boardVars, clientVars, mainVars, sigVars, histVars>>

\* scoreboard[my_scoreboard_idx].score = accumulated_points, unlock,
\* unload_level(&board), current_level++
WorkerScore(w) ==
  /\ Running(w)
  /\ wpc[w] = "score"
  /\ scoreboard' = [scoreboard EXCEPT ![wl[w].my_scoreboard_idx].score = wl[w].accumulated_points]
  /\ scoreboard_mutex' = NoThread
  /\ wl' = [wl EXCEPT ![w].current_level = @ + 1]
  /\ wpc' = [wpc EXCEPT ![w] = "level_loop"]
  /\ UNCHANGED <<procVars, gameVars, queueVars, next_client_id, clientVars, mainVars, sigVars, histVars>>

\* a worker that leaves its score board entry active when the session ends
WorkerFinal_stays_active(w) ==
  /\ Running(w)
  /\ wpc[w] = "final"
  /\ scoreboard' = [scoreboard EXCEPT ![wl[w].my_scoreboard_idx].score = wl[w].accumulated_points]
  /\ scoreboard_mutex' = NoThread
  /\ wl' = [wl EXCEPT ![w] = InitLocals]
  /\ wpc' = [wpc EXCEPT ![w] = "sem_wait"]
  /\ UNCHANGED <<procVars, gameVars, queueVars, next_client_id, clientVars, mainVars, sigVars, histVars>>

\* score = accumulated_points, active = 0, unlock; back to the top of the loop
WorkerFinal(w) ==
  /\ Running(w)
  /\ wpc[w] = "final"
  /\ scoreboard' = [scoreboard EXCEPT ![wl[w].my_scoreboard_idx] =
                      [@ EXCEPT !.score = wl[w].accumulated_points, !.active = 0]]
  /\ scoreboard_mutex' = NoThread
  /\ wl' = [wl EXCEPT ![w] = InitLocals]
  /\ wpc' = [wpc EXCEPT ![w] = "sem_wait"]
  /\ UNCHANGED <<procVars, gameVars, queueVars, next_client_id, clientVars, mainVars, sigVars, histVars>>

WorkerStep(w) ==
  \/ WorkerMask(w)
  \/ WorkerSemWait(w)
  \/ WorkerLock(w)
  \/ WorkerDequeue(w)
  \/ WorkerPost(w)
  \/ \E o \in OpenOutcomes, n \in 1..MaxLevels : WorkerOpen(w, o, n)
  \/ WorkerBoardLock(w, "register_lock", "register")
  \/ WorkerRegister(w)
  \/ \E loaded \in BOOLEAN : WorkerLevelLoop(w, loaded)
  \/ WorkerRunGame(w)
  \/ \E r \in GameResults, p \in 0..MaxScore : WorkerJoinGame(w, r, p)
  \/ WorkerBoardLock(w, "score_lock", "score")
  \/ WorkerScore(w)
  \/ WorkerBoardLock(w, "final_lock", "final")
  \/ WorkerFinal(w)


(* ---- SIGUSR1 and handle_sigusr1 ---- *)
Alive(t) == IF t = Main THEN TRUE ELSE wpc[t] # "uncreated"

\* a SIGUSR1 reaches thread t: the handler starts unless t blocks the signal,
\* in which case the signal stays pending on t
DeliverSignal(t) ==
  /\ signals < MaxSignals
  /\ Alive(t)
  /\ Running(t)
  /\ signals' = signals + 1
  /\ hpc' = IF sigblocked[t] THEN hpc ELSE [hpc EXCEPT ![t] = "lock"]
  /\ UNCHANGED <<procVars, gameVars, queueVars, boardVars, clientVars, mainVars, wpc, wl, sigblocked,
                 score_log, logged, histVars>>

\* pthread_mutex_lock(&scoreboard_mutex) in handle_sigusr1
HandlerLock(t) ==
  /\ hpc[t] = "lock"
  /\ scoreboard_mutex = NoThread
  /\ scoreboard_mutex' = t
  /\ hpc' = [hpc EXCEPT ![t] = "report"]
  /\ UNCHANGED <<procVars, gameVars, queueVars, scoreboard, next_client_id, clientVars, mainVars, wpc, wl,
                 sigblocked, signals, score_log, logged, histVars>>

\* a comparator that sorts in ascending order
compare_scores_ascending(ea, eb) == ea.score - eb.score

compare_scores(ea, eb) == eb.score - ea.score

\* the orders qsort may leave the entries S of board in: each entry compares
\* less than or equal to every entry after it; entries that compare equal may
\* come out in any order
RECURSIVE SortedOrders(_, _)
SortedOrders(board, S) ==
  IF S = {} THEN {<<>>}
  ELSE UNION { { <<board[i]>> \o rest : rest \in SortedOrders(board, S \ {i}) } :
               i \in { i \in S : \A j \in S : compare_scores(board[i], board[j]) <= 0 } }

qsort(board) == SortedOrders(board, DOMAIN board)

Reportable(e) == e.score > 0 \/ e.active # 0

\* for (i = 0; i < MAX_SCOREBOARD && count < 5; i++) if (score > 0 || active) print
RECURSIVE ReportLoop(_, _, _)
ReportLoop(sorted, i, out) ==
  IF i > Len(sorted) \/ Len(out) >= TOP_SCORES THEN out
  ELSE IF Reportable(sorted[i])
         THEN ReportLoop(sorted, i + 1, Append(out, sorted[i]))
         ELSE ReportLoop(sorted, i + 1, out)

\* copy, qsort, write the report to score_log.txt, unlock
WriteReport(t) ==
  /\ hpc[t] = "report"
  /\ \E sorted \in qsort(scoreboard) : score_log' = ReportLoop(sorted, 1, <<>>)
  /\ logged' = TRUE
  /\ scoreboard_mutex' = NoThread
  /\ hpc' = [hpc EXCEPT ![t] = "none"]

\* handle_sigusr1 returns and the thread goes on where it was
HandlerReport(t) ==
  /\ WriteReport(t)
  /\ UNCHANGED <<procVars, gameVars, queueVars, scoreboard, next_client_id, clientVars, mainVars, wpc, wl,
                 sigblocked, signals, histVars>>

SignalStep(t) ==
  \/ DeliverSignal(t)
  \/ HandlerLock(t)
  \/ HandlerReport(t)

(* ---- the server without signals ---- *)
Next ==
  \/ \E c \in Clients, k \in MsgKinds : ClientSend(c, k)
  \/ MainStep
  \/ \E w \in Workers : WorkerStep(w)

Spec == Init /\ [][Next]_vars

\* the server started with max_games = 1: one slot in the queue, one worker
InitOne == Init /\ buffer_size = 1

SpecOne == InitOne /\ [][Next]_vars

(* ---- the server when the pipes of every client can be opened ---- *)
\* the two outcomes of the search for level files that end a session
NoStageOutcomes == {"nodir", "nolevels"}

\* the clients are alive and descriptors are available: a worker that gives a
\* session up at its start does so for lack of level files
NextNoStage ==
  \/ \E c \in Clients, k \in MsgKinds : ClientSend(c, k)
  \/ MainStep
  \/ \E w \in Workers :
       \/ WorkerMask(w)
       \/ WorkerSemWait(w)
       \/ WorkerLock(w)
       \/ WorkerDequeue(w)
       \/ WorkerPost(w)
       \/ \E o \in NoStageOutcomes \cup {"ok"}, n \in 1..MaxLevels : WorkerOpen(w, o, n)
       \/ WorkerBoardLock(w, "register_lock", "register")
       \/ WorkerRegister(w)
       \/ \E loaded \in BOOLEAN : WorkerLevelLoop(w, loaded)
       \/ WorkerRunGame(w)
       \/ \E r \in GameResults, p \in 0..MaxScore : WorkerJoinGame(w, r, p)
       \/ WorkerBoardLock(w, "score_lock", "score")
       \/ WorkerScore(w)
       \/ WorkerBoardLock(w, "final_lock", "final")
       \/ WorkerFinal(w)

SpecNoStage == Init /\ [][NextNoStage]_vars

(* ---- the server with a session as one step, and under fair scheduling ---- *)
\* worker_task from the dequeue to the end of the loop body, as one step: the
\* session is abandoned (outcome other than "ok"), or the pipes are opened, a
\* score board entry is taken, levels run (ran) and leave the player with
\* points, the pipes are closed and the entry is made inactive.  None of this
\* reads or writes the queue, its indices, its mutex or its semaphores.
WorkerServe(w, outcome, ran, points) ==
  /\ ran => outcome = "ok"
  /\ points > 0 => ran
  /\ Running(w)
  /\ wpc[w] = "open"
  /\ scoreboard_mutex = NoThread
  /\ IF outcome = "ok"
       THEN /\ LET i == FreeSlot(scoreboard) IN
                 scoreboard' = IF i = -1 THEN scoreboard
                               ELSE [scoreboard EXCEPT ![i] =
                                      [client_id |-> next_client_id,
                                       score |-> IF ran THEN points ELSE 0,
                                       active |-> 0]]
            /\ next_client_id' = next_client_id + 1
            /\ updated' = IF ran THEN updated \cup {wl[w].session} ELSE updated
       ELSE UNCHANGED <<scoreboard, next_client_id, updated>>
  /\ closed' = closed \cup {wl[w].session}
  /\ wl' = [wl EXCEPT ![w] = InitLocals]
  /\ wpc' = [wpc EXCEPT ![w] = "sem_wait"]
  /\ UNCHANGED <<procVars, gameVars, queueVars, scoreboard_mutex, clientVars, mainVars, sigVars,
                 enqueued, dequeued, accepted>>

WorkerQueueStep(w) ==
  \/ WorkerMask(w)
  \/ WorkerSemWait(w)
  \/ WorkerLock(w)
  \/ WorkerDequeue(w)
  \/ WorkerPost(w)

NextFair ==
  \/ \E c \in Clients, k \in MsgKinds : ClientSend(c, k)
  \/ MainStep
  \/ \E w \in Workers : WorkerQueueStep(w)
  \/ \E w \in Workers, o \in OpenOutcomes, ran \in BOOLEAN, p \in 0..MaxScore : WorkerServe(w, o, ran, p)

\* a thread that can take a step of enqueue or dequeue takes it; a session may
\* last forever, and so may the wait for the next client
Fairness ==
  /\ WF_vars(MainSemWait \/ MainLock \/ MainEnqueue \/ MainPost)
  /\ \A w \in Workers : WF_vars(WorkerQueueStep(w))

SpecQueue == Init /\ [][NextFair]_vars

FairSpec == SpecQueue /\ Fairness

(* ---- clients that never open their notification pipe ---- *)
\* client c has written its request and ends before its open(notif_pipe,
\* O_RDONLY); its FIFOs stay in the file system
ClientNeverOpens(c) ==
  /\ client[c] = "up"
  /\ c \notin unsent
  /\ c \notin accepted
  /\ \/ \E i \in 1..Len(fifo) : fifo[i] = [kind |-> "connect", client |-> c]
     \/ (mpc = "respond" /\ req.client = c)
  /\ client' = [client EXCEPT ![c] = "killed"]
  /\ UNCHANGED <<procVars, stageVars, req_pipe, sent, update_msg, client_size, notif_pipe,
                 queueVars, boardVars, clientVars, mainVars, sigVars, wpc, wl, histVars>>

NextMute ==
  \/ \E c \in Clients, k \in MsgKinds : ClientSend(c, k)
  \/ \E c \in Clients : ClientNeverOpens(c)
  \/ MainStep
  \/ \E w \in Workers : WorkerQueueStep(w)
  \/ \E w \in Workers, o \in OpenOutcomes, ran \in BOOLEAN, p \in 0..MaxScore : WorkerServe(w, o, ran, p)

\* main takes every step of its accept loop that it can take, and so does
\* every worker at the queue
FairAccept ==
  /\ WF_vars(MainRead)
  /\ WF_vars(\E ok \in BOOLEAN : MainRespond(ok))
  /\ Fairness

SpecMute == Init /\ [][NextMute]_vars /\ FairAccept

(* ---- the server with SIGUSR1 ---- *)
NextSig ==
  \/ \E c \in Clients, k \in MsgKinds : ClientSend(c, k)
  \/ MainStep
  \/ \E w \in Workers : WorkerStep(w)
  \/ \E t \in Threads : SignalStep(t)

SpecSig == Init /\ [][NextSig]_vars

(* ---- signals that end or interrupt the server ---- *)
EXIT_SUCCESS == 0

\* main waits in read(fifo_fd, ...) for a request, in sem_wait(&sem_empty) for a slot
BlockedInRead == mpc = "read" /\ fifo = <<>>
BlockedInSemWait == mpc = "sem_wait" /\ sem_empty = 0

\* handle_sigusr1 returns to a main that it took out of a blocking call, in a
\* build where signal() installs the handler without SA_RESTART: the call fails
\* with EINTR.  read() == -1 is "Read error" and break: close(fifo_fd),
\* unlink(global_fifo_name), return 0.  The result of sem_wait is not looked at:
\* main goes on to the mutex without a permit.
HandlerReportEintr(t) ==
  /\ t = Main
  /\ proc = "running"
  /\ WriteReport(t)
  /\ \/ /\ BlockedInRead
        /\ proc' = "exit_main"
        /\ exit_status' = 0
        /\ fifo_name' = FALSE
        /\ UNCHANGED mpc
     \/ /\ BlockedInSemWait
        /\ mpc' = "lock"
        /\ UNCHANGED <<proc, exit_status, fifo_name>>
  /\ UNCHANGED <<gameVars, queueVars, scoreboard, next_client_id, clientVars, created, req,
                 wpc, wl, sigblocked, signals, histVars>>

\* the server with a session as one step and with SIGUSR1
NextIntr ==
  \/ \E c \in Clients, k \in MsgKinds : ClientSend(c, k)
  \/ MainStep
  \/ \E w \in Workers : WorkerQueueStep(w)
  \/ \E w \in Workers, o \in OpenOutcomes, ran \in BOOLEAN, p \in 0..MaxScore : WorkerServe(w, o, ran, p)
  \/ \E t \in Threads : SignalStep(t)
  \/ HandlerReportEintr(Main)

SpecIntr == Init /\ [][NextIntr]_vars

\* a handle_cleanup that leaves the FIFO in the file system
handle_cleanup_no_unlink(t) ==
  /\ proc = "running"
  /\ Alive(t)
  /\ proc' = "exit_cleanup"
  /\ exit_status' = EXIT_SUCCESS
  /\ hpc' = [u \in Threads |-> "none"]
  /\ UNCHANGED <<gameVars, fifo_name, queueVars, boardVars, clientVars, mainVars, wpc, wl,
                 sigblocked, signals, score_log, logged, histVars>>

\* SIGINT or SIGTERM reaches thread t (no thread blocks them, and both have this
\* handler): unlink(global_fifo_name), sem_destroy, pthread_mutex_destroy, printf,
\* exit(EXIT_SUCCESS).  Nothing in the handler waits for another thread, and
\* every thread of the process ends where it is.
handle_cleanup(t) ==
  /\ proc = "running"
  /\ Alive(t)
  /\ fifo_name' = FALSE
  /\ proc' = "exit_cleanup"
  /\ exit_status' = EXIT_SUCCESS
  /\ hpc' = [u \in Threads |-> "none"]
  /\ UNCHANGED <<gameVars, queueVars, boardVars, clientVars, mainVars, wpc, wl,
                 sigblocked, signals, score_log, logged, histVars>>

\* a client opens the registration FIFO by its name
ClientConnect(c, k) == fifo_name /\ ClientSend(c, k)

\* the server with a session as one step, with SIGINT and SIGTERM
NextTerm ==
  \/ \E c \in Clients, k \in MsgKinds : ClientConnect(c, k)
  \/ MainStep
  \/ \E w \in Workers : WorkerQueueStep(w)
  \/ \E w \in Workers, o \in OpenOutcomes, ran \in BOOLEAN, p \in 0..MaxScore : WorkerServe(w, o, ran, p)
  \/ \E t \in Threads : handle_cleanup(t)

SpecTerm == Init /\ [][NextTerm]_vars

(* ---- the wire protocol of a session (protocol.h) ---- *)
OP_CONNECT == 1
OP_DISCONNECT == 2
OP_MOVE == 3
OP_UPDATE == 4
sizeof_disconnect_req_t == 1
sizeof_move_req_t == 2

\* the key of the i-th message of a client: 'A', 'B', ...; every message carries
\* its own key, so that a command is known by its key
Key(i) == 64 + i

ReqKinds == {"move", "disconnect", "other"}

\* the bytes of a request: move_req_t is op_code and key, disconnect_req_t is
\* the op_code alone; "other" is a two-byte message with an op_code that the
\* listener has no case for
MsgBytes(kind, i) ==
  CASE kind = "move" -> <<OP_MOVE, Key(i)>>
    [] kind = "disconnect" -> <<OP_DISCONNECT>>
    [] OTHER -> <<OP_UPDATE, Key(i)>>

Min(a, b) == IF a <= b THEN a ELSE b

(* ---- the client of a session ---- *)
\* the worker that has the pipes of client c open, if any
HasReqOpen(c) == \E w \in Workers : wl[w].session = c /\ wl[w].req_fd

\* write(req_fd, &msg, sizeof msg) by the client; its open(req_pipe, O_WRONLY)
\* returns once the worker has opened the pipe for reading
ClientWrite(c, kind) ==
  /\ client[c] = "up"
  /\ HasReqOpen(c)
  /\ sent[c] < MaxMsgs
  /\ req_pipe' = [req_pipe EXCEPT ![c] = @ \o MsgBytes(kind, sent[c] + 1)]
  /\ sent' = [sent EXCEPT ![c] = @ + 1]
  /\ UNCHANGED <<update_msg, client_size, notif_pipe>>
  /\ UNCHANGED <<procVars, stageVars, client, queueVars, boardVars, clientVars, mainVars, wpc, wl,
                 sigVars, histVars>>

\* the client process ends: "killed" closes its descriptors and leaves the two
\* FIFOs in the file system, "left" also unlinks them; once the worker has both
\* pipes open the names no longer matter to it, and the end is taken as "killed"
ClientEnd(c, how) ==
  /\ client[c] = "up"
  /\ how = "left" => ~HasReqOpen(c)
  /\ c \in accepted
  /\ c \notin closed
  /\ client' = [client EXCEPT ![c] = how]
  /\ UNCHANGED <<procVars, stageVars, req_pipe, sent, update_msg, client_size, notif_pipe, queueVars, boardVars, clientVars, mainVars,
                 wpc, wl, sigVars, histVars>>

ClientStep(c) ==
  \/ \E kind \in ReqKinds : ClientWrite(c, kind)
  \/ \E how \in {"killed", "left"} : ClientEnd(c, how)

\* what open(session.notif_pipe, O_WRONLY) and open(session.req_pipe, O_RDONLY)
\* can do: with the client up they succeed or fail; with the FIFOs unlinked
\* they fail; with the FIFOs in place and no process at the other end the open
\* does not return
OpenReturns(c, outcome) ==
  CASE outcome \in {"nodir", "nolevels"} -> TRUE
    [] client[c] = "up" -> TRUE
    [] client[c] = "left" -> outcome # "ok"
    [] OTHER -> FALSE

OpenPipes(w, outcome, n) ==
  /\ wpc[w] = "open"
  /\ OpenReturns(wl[w].session, outcome)
  /\ WorkerOpen(w, outcome, n)

\* the two opens when the levels directory is in order: what they do is decided
\* by the other end of the pipes alone
OpenDecided(w) ==
  \E o \in {"ok", "nonotif", "noreq"}, n \in 1..MaxLevels : OpenPipes(w, o, n)

(* ---- pthread_rwlock_t state_lock ---- *)
CanRdLock == state_lock.writer = NoThread
\* a write lock that does not wait for the readers
CanWrLock_over_readers == state_lock.writer = NoThread
CanWrLock == state_lock.writer = NoThread /\ state_lock.readers = {}
Unlocked(t) ==
  [writer |-> IF state_lock.writer = t THEN NoThread ELSE state_lock.writer,
   readers |-> state_lock.readers \ {t}]

\* what the stage's threads leave alone
serverVars == <<queueVars, boardVars, clientVars, mainVars, sigVars>>

\* the worker that is inside run_game_logic and the client it serves
InStage == {"join_pacman", "stop_lock", "stop", "join_rest"}
StageWorker == CHOOSE w \in Workers : wpc[w] \in InStage
StageClient == wl[StageWorker].session
StageRuns == proc = "running" /\ \E w \in Workers : wpc[w] \in InStage

\* pthread_rwlock_rdlock(&board->state_lock) by thread t of the stage
RdLock(t, from, to) ==
  /\ StageRuns
  /\ gpc[t] = from
  /\ CanRdLock
  /\ state_lock' = [state_lock EXCEPT !.readers = @ \cup {t}]
  /\ gpc' = [gpc EXCEPT ![t] = to]
  /\ UNCHANGED <<procVars, pipeVars, serverVars, wpc, wl, histVars, game_board, lmove, play, retval,
                 flag_by, sent_states, left_by, written, overwritten, played>>

\* pthread_rwlock_wrlock(&board->state_lock) by thread t of the stage
WrLock(t, from, to) ==
  /\ StageRuns
  /\ gpc[t] = from
  /\ CanWrLock
  /\ state_lock' = [state_lock EXCEPT !.writer = t]
  /\ gpc' = [gpc EXCEPT ![t] = to]
  /\ UNCHANGED <<procVars, pipeVars, serverVars, wpc, wl, histVars, game_board, lmove, play, retval,
                 flag_by, sent_states, left_by, written, overwritten, played>>

(* ---- input_listener_thread ---- *)
\* if (board->shutdown) break, under the read lock
listener_check ==
  /\ StageRuns
  /\ gpc[listener_tid] = "check"
  /\ state_lock' = Unlocked(listener_tid)
  /\ gpc' = [gpc EXCEPT ![listener_tid] = IF game_board.shutdown = 1 THEN "done" ELSE "read"]
  /\ UNCHANGED <<procVars, pipeVars, serverVars, wpc, wl, histVars, game_board, lmove, play, retval,
                 flag_by, sent_states, left_by, written, overwritten, played>>

\* a listener that takes a read of fewer bytes than a move_req_t for the end of
\* the stream
listener_dispatch_short_is_eof(n, op_code) ==
  CASE n < sizeof_move_req_t -> "eof_lock"
    [] op_code = OP_MOVE -> "move_lock"
    [] op_code = OP_DISCONNECT -> "disc_lock"
    [] OTHER -> "check_lock"

\* where the listener goes after a read of n bytes with move.op_code = op_code
listener_dispatch(n, op_code) ==
  CASE n = 0 -> "eof_lock"
    [] n < sizeof_move_req_t -> "check_lock"
    [] op_code = OP_MOVE -> "move_lock"
    [] op_code = OP_DISCONNECT -> "disc_lock"
    [] OTHER -> "check_lock"

\* n = read(fd, &move, sizeof(move_req_t)): at most two bytes of what the pipe
\* holds; 0 when the pipe is empty and the client has closed it; the read waits
\* while the pipe is empty and the client has it open
listener_read ==
  /\ StageRuns
  /\ gpc[listener_tid] = "read"
  /\ LET data == req_pipe[StageClient]
         n == Min(Len(data), sizeof_move_req_t)
         move == [n |-> n,
                  op_code |-> IF n >= 1 THEN data[1] ELSE lmove.op_code,
                  key |-> IF n >= 2 THEN data[2] ELSE lmove.key]
     IN /\ data # <<>> \/ client[StageClient] # "up"
        /\ req_pipe' = [req_pipe EXCEPT ![StageClient] = SubSeq(data, n + 1, Len(data))]
        /\ lmove' = move
        /\ gpc' = [gpc EXCEPT ![listener_tid] = listener_dispatch(n, move.op_code)]
  /\ UNCHANGED <<procVars, client, sent, update_msg, client_size, notif_pipe, serverVars, wpc, wl, histVars, state_lock, game_board,
                 play, retval, flag_by, sent_states, left_by, written, overwritten, played>>

\* a listener that ends without setting board->shutdown
listener_shutdown_exit_only(from) ==
  /\ StageRuns
  /\ gpc[listener_tid] = from
  /\ state_lock' = Unlocked(listener_tid)
  /\ gpc' = [gpc EXCEPT ![listener_tid] = "done"]
  /\ UNCHANGED <<procVars, pipeVars, serverVars, wpc, wl, histVars, game_board, flag_by, sent_states, left_by, lmove,
                 play, retval, written, overwritten, played>>

\* board->shutdown = 1 and unlock, after a read of 0 bytes ("eof") or after a
\* disconnect request ("disc"); the thread ends
listener_shutdown(from) ==
  /\ StageRuns
  /\ gpc[listener_tid] = from
  /\ game_board' = [game_board EXCEPT !.shutdown = 1]
  /\ flag_by' = IF game_board.shutdown = 0 THEN "listener" ELSE flag_by
  /\ UNCHANGED sent_states
  /\ state_lock' = Unlocked(listener_tid)
  /\ gpc' = [gpc EXCEPT ![listener_tid] = "done"]
  /\ UNCHANGED <<left_by, procVars, pipeVars, serverVars, wpc, wl, histVars, lmove, play, retval,
                 written, overwritten, played>>

\* a mailbox that keeps the first command until it is taken
listener_move_keep_first ==
  /\ StageRuns
  /\ gpc[listener_tid] = "move"
  /\ game_board' = IF game_board.next_user_move \in {NoKey, NulKey}
                     THEN [game_board EXCEPT !.next_user_move = lmove.key]
                     ELSE game_board
  /\ written' = Append(written, lmove.key)
  /\ overwritten' = overwritten
  /\ state_lock' = Unlocked(listener_tid)
  /\ gpc' = [gpc EXCEPT ![listener_tid] = "check_lock"]
  /\ UNCHANGED <<procVars, pipeVars, serverVars, wpc, wl, histVars, lmove, play, retval, flag_by, sent_states, left_by,
                 played>>

\* board->pacmans[0].next_user_move = move.key and unlock
listener_move ==
  /\ StageRuns
  /\ gpc[listener_tid] = "move"
  /\ game_board' = [game_board EXCEPT !.next_user_move = lmove.key]
  /\ written' = Append(written, lmove.key)
  /\ overwritten' = IF game_board.next_user_move \in {NoKey, NulKey} THEN overwritten
                    ELSE overwritten \cup {game_board.next_user_move}
  /\ state_lock' = Unlocked(listener_tid)
  /\ gpc' = [gpc EXCEPT ![listener_tid] = "check_lock"]
  /\ UNCHANGED <<procVars, pipeVars, serverVars, wpc, wl, histVars, lmove, play, retval, flag_by, sent_states, left_by,
                 played>>

\* the loop of the listener up to the read, and the end of the stream
listener_loop ==
  \/ RdLock(listener_tid, "check_lock", "check")
  \/ listener_check
  \/ listener_read
  \/ WrLock(listener_tid, "eof_lock", "eof")
  \/ listener_shutdown("eof")

\* the cases of switch (move.op_code)
listener_requests ==
  \/ WrLock(listener_tid, "move_lock", "move")
  \/ listener_move
  \/ WrLock(listener_tid, "disc_lock", "disc")
  \/ listener_shutdown("disc")

input_listener_thread == listener_loop \/ listener_requests

(* ---- update_thread and server_send_update ---- *)
\* the disposition of SIGPIPE had main not changed it
SIGPIPE_disposition_default == "SIG_DFL"

\* signal(SIGPIPE, SIG_IGN) in main
SIGPIPE_disposition == "SIG_IGN"

GAME_STATE_PLAYING == 0
GAME_STATE_WIN == 1
GAME_STATE_GAME_OVER == 2

\* msg.game_state of server_send_update
game_state ==
  IF game_board.level_finished = 1 THEN GAME_STATE_WIN
  ELSE IF game_board.alive = 0 THEN GAME_STATE_GAME_OVER
  ELSE GAME_STATE_PLAYING

\* write(notif_fd, &msg, sizeof(game_state_msg_t)) to client c: the message
\* arrives; or nobody has the pipe open for reading, and the write fails with
\* EPIPE when SIGPIPE is ignored and ends the process when it is not
server_send_update(c) ==
  /\ sent_states' = sent_states \cup {game_state}
  /\ updated' = IF client[c] = "up" THEN updated \cup {c} ELSE updated
  /\ proc' = IF client[c] = "up" \/ SIGPIPE_disposition = "SIG_IGN" THEN proc ELSE "sigpipe"

\* the write to client c's notification pipe waits for room: the client is
\* stopped and the pipe is full
WriteBlocks(c) == client[c] = "stopped" /\ notif_pipe[c] = NotifCapacity

\* server_send_update under the read lock; the loop sends again unless
\* board->shutdown is set.  A client that runs is in its read() and takes the
\* update at once; the update to a stopped client stays in the pipe.
update_send(from) ==
  /\ StageRuns
  /\ gpc[update_tid] = from
  /\ IF from = "send" /\ game_board.shutdown = 1
       THEN /\ gpc' = [gpc EXCEPT ![update_tid] = "done"]
            /\ UNCHANGED <<updated, proc, sent_states, notif_pipe>>
       ELSE /\ ~WriteBlocks(StageClient)
            /\ gpc' = [gpc EXCEPT ![update_tid] = "lock"]
            /\ server_send_update(StageClient)
            /\ notif_pipe' = IF client[StageClient] = "stopped"
                               THEN [notif_pipe EXCEPT ![StageClient] = @ + 1]
                               ELSE notif_pipe
  /\ state_lock' = Unlocked(update_tid)
  /\ UNCHANGED <<fifo_name, exit_status, client, req_pipe, sent, update_msg, client_size, serverVars, wpc, wl, enqueued, dequeued,
                 accepted, closed, game_board, lmove, play, retval, flag_by, left_by, written, overwritten,
                 played>>

update_thread ==
  \/ RdLock(update_tid, "first_lock", "first_send")
  \/ update_send("first_send")
  \/ RdLock(update_tid, "lock", "send")
  \/ update_send("send")

(* ---- pacman_thread and move_pacman ---- *)
\* the command of the level's script, pacman->moves[...]
ScriptKey == Key(0)
IsUserKey(k) == k > ScriptKey

\* a driver that returns at a dead pacman without *retval = LOAD_BACKUP
pacman_top_keeps_retval ==
  /\ StageRuns
  /\ gpc[pacman_tid] = "top"
  /\ IF game_board.alive = 0
       THEN /\ retval' = retval
            /\ left_by' = "top"
            /\ gpc' = [gpc EXCEPT ![pacman_tid] = "done"]
       ELSE /\ retval' = retval
            /\ left_by' = left_by
            /\ gpc' = [gpc EXCEPT ![pacman_tid] = "select_lock"]
  /\ UNCHANGED <<procVars, pipeVars, serverVars, wpc, wl, histVars, state_lock, game_board, lmove,
                 play, flag_by, sent_states, written, overwritten, played>>

\* if (!pacman->alive) return LOAD_BACKUP, read without the lock; then the sleep
pacman_top ==
  /\ StageRuns
  /\ gpc[pacman_tid] = "top"
  /\ IF game_board.alive = 0
       THEN /\ retval' = LOAD_BACKUP
            /\ left_by' = "top"
            /\ gpc' = [gpc EXCEPT ![pacman_tid] = "done"]
       ELSE /\ retval' = retval
            /\ left_by' = left_by
            /\ gpc' = [gpc EXCEPT ![pacman_tid] = "select_lock"]
  /\ UNCHANGED <<procVars, pipeVars, serverVars, wpc, wl, histVars, state_lock, game_board, lmove,
                 play, flag_by, sent_states, written, overwritten, played>>

\* a driver that prefers the level's script to the client's command
pacman_select_script_first ==
  /\ StageRuns
  /\ gpc[pacman_tid] = "select"
  /\ play' = IF game_board.n_moves > 0 THEN ScriptKey
             ELSE IF game_board.next_user_move # NoKey THEN game_board.next_user_move
             ELSE NoKey
  /\ game_board' = [game_board EXCEPT !.next_user_move = NoKey]
  /\ state_lock' = Unlocked(pacman_tid)
  /\ gpc' = [gpc EXCEPT ![pacman_tid] = "move_lock"]
  /\ UNCHANGED <<procVars, pipeVars, serverVars, wpc, wl, histVars, lmove, retval, flag_by, sent_states, left_by,
                 written, overwritten, played>>

\* under the write lock: the client's command if there is one, which empties
\* next_user_move; else the level's script if it has one; else ' '
pacman_select ==
  /\ StageRuns
  /\ gpc[pacman_tid] = "select"
  /\ play' = IF game_board.next_user_move # NoKey THEN game_board.next_user_move
             ELSE IF game_board.n_moves > 0 THEN ScriptKey
             ELSE NoKey
  /\ game_board' = [game_board EXCEPT !.next_user_move = NoKey]
  /\ state_lock' = Unlocked(pacman_tid)
  /\ gpc' = [gpc EXCEPT ![pacman_tid] = "move_lock"]
  /\ UNCHANGED <<procVars, pipeVars, serverVars, wpc, wl, histVars, lmove, retval, flag_by, sent_states, left_by,
                 written, overwritten, played>>

\* what a call of move_pacman can come to: the pacman is dead already; it is
\* waiting (passo); the command is no direction or the target is a wall or off
\* the board; the target is free, has a dot, is the portal, or holds a ghost
MoveOutcomes == {"dead", "waiting", "invalid", "valid", "dot", "portal", "ghost"}

MovePossible(outcome, command) ==
  CASE game_board.alive = 0 -> outcome = "dead"
    [] game_board.waiting > 0 -> outcome = "waiting"
    [] command \in {NoKey, NulKey} -> outcome = "invalid"
    [] outcome = "dot" -> game_board.points < MaxScore
    [] OTHER -> outcome \notin {"dead", "waiting"}

\* pac->waiting after move_pacman: unchanged for a dead pacman, one less when
\* the call was skipped, pac->passo otherwise
Waiting(outcome) ==
  CASE outcome = "dead" -> game_board.waiting
    [] outcome = "waiting" -> game_board.waiting - 1
    [] OTHER -> game_board.passo

\* move_pacman(board, 0, play) from its wrlock to its unlock, and the checks of
\* its result in pacman_thread
pacman_move(outcome) ==
  /\ StageRuns
  /\ gpc[pacman_tid] = "move"
  /\ MovePossible(outcome, play)
  /\ game_board' =
       CASE outcome = "dot" -> [game_board EXCEPT !.points = @ + 1, !.waiting = Waiting(outcome)]
         [] outcome = "portal" -> [game_board EXCEPT !.level_finished = 1, !.waiting = Waiting(outcome)]
         [] outcome = "ghost" -> [game_board EXCEPT !.alive = 0, !.waiting = Waiting(outcome)]
         [] OTHER -> [game_board EXCEPT !.waiting = Waiting(outcome)]
  /\ played' = IF IsUserKey(play) THEN Append(played, play) ELSE played
  /\ retval' = CASE outcome = "portal" -> NEXT_LEVEL
                 [] outcome \in {"dead", "ghost"} -> LOAD_BACKUP
                 [] OTHER -> retval
  /\ left_by' = CASE outcome = "portal" -> "portal"
                  [] outcome \in {"dead", "ghost"} -> "dead"
                  [] OTHER -> left_by
  /\ state_lock' = Unlocked(pacman_tid)
  /\ gpc' = [gpc EXCEPT ![pacman_tid] =
               IF outcome \in {"portal", "dead", "ghost"} THEN "done" ELSE "check_lock"]
  /\ UNCHANGED <<procVars, pipeVars, serverVars, wpc, wl, histVars, lmove, play, flag_by, sent_states, written,
                 overwritten>>

\* if (board->shutdown) break, under the read lock; *retval is still QUIT_GAME
pacman_check ==
  /\ StageRuns
  /\ gpc[pacman_tid] = "check"
  /\ state_lock' = Unlocked(pacman_tid)
  /\ gpc' = [gpc EXCEPT ![pacman_tid] = IF game_board.shutdown = 1 THEN "done" ELSE "top"]
  /\ left_by' = IF game_board.shutdown = 1 THEN "flag" ELSE left_by
  /\ UNCHANGED <<procVars, pipeVars, serverVars, wpc, wl, histVars, game_board, lmove, play, retval,
                 flag_by, sent_states, written, overwritten, played>>

pacman_thread ==
  \/ pacman_top
  \/ WrLock(pacman_tid, "select_lock", "select")
  \/ pacman_select
  \/ WrLock(pacman_tid, "move_lock", "move")
  \/ \E outcome \in MoveOutcomes : pacman_move(outcome)
  \/ RdLock(pacman_tid, "check_lock", "check")
  \/ pacman_check

(* ---- ghost_thread and move_ghost ---- *)
\* if (board->shutdown) pthread_exit, under the read lock
ghost_check(g) ==
  /\ StageRuns
  /\ gpc[g] = "check"
  /\ state_lock' = Unlocked(g)
  /\ gpc' = [gpc EXCEPT ![g] = IF game_board.shutdown = 1 THEN "done" ELSE "move_lock"]
  /\ UNCHANGED <<procVars, pipeVars, serverVars, wpc, wl, histVars, game_board, lmove, play, retval,
                 flag_by, sent_states, left_by, written, overwritten, played>>

\* a ghost that ends the stage itself when it kills the pacman
move_ghost_ends_stage(g, kills) ==
  /\ StageRuns
  /\ gpc[g] = "move"
  /\ kills => game_board.alive = 1
  /\ game_board' = IF kills THEN [game_board EXCEPT !.alive = 0, !.shutdown = 1] ELSE game_board
  /\ state_lock' = Unlocked(g)
  /\ gpc' = [gpc EXCEPT ![g] = "check_lock"]
  /\ UNCHANGED <<procVars, pipeVars, serverVars, wpc, wl, histVars, lmove, play, retval, flag_by, sent_states, left_by,
                 written, overwritten, played>>

\* move_ghost from its wrlock to its unlock; a ghost that reaches the cell of a
\* pacman that is alive kills it (find_and_kill_pacman)
move_ghost(g, kills) ==
  /\ StageRuns
  /\ gpc[g] = "move"
  /\ kills => game_board.alive = 1
  /\ game_board' = IF kills THEN [game_board EXCEPT !.alive = 0] ELSE game_board
  /\ state_lock' = Unlocked(g)
  /\ gpc' = [gpc EXCEPT ![g] = "check_lock"]
  /\ UNCHANGED <<procVars, pipeVars, serverVars, wpc, wl, histVars, lmove, play, retval, flag_by, sent_states, left_by,
                 written, overwritten, played>>

ghost_thread(g) ==
  \/ RdLock(g, "check_lock", "check")
  \/ ghost_check(g)
  \/ WrLock(g, "move_lock", "move")
  \/ \E kills \in BOOLEAN : move_ghost(g, kills)

(* ---- run_game_logic ---- *)
\* load_level has filled the board (n_moves commands in the pacman's script,
\* n_ghosts ghosts, the points of the levels before, the PASSO of the
\* pacman's file and waiting = 0 from the memset); shutdown = 0 and the
\* pthread_create calls
run_game_create(w, n_moves, n_ghosts) ==
  /\ Running(w)
  /\ wpc[w] = "run_game"
  /\ \A v \in Workers : wpc[v] \notin InStage
  /\ \E passo \in 0..MaxPasso :
       game_board' = [shutdown |-> 0, next_user_move |-> NulKey, alive |-> 1,
                      points |-> wl[w].accumulated_points, level_finished |-> 0,
                      n_moves |-> n_moves, n_ghosts |-> n_ghosts,
                      passo |-> passo, waiting |-> 0]
  /\ state_lock' = [writer |-> NoThread, readers |-> {}]
  /\ gpc' = [t \in StageThreads |->
               CASE t = update_tid -> "first_lock"
                 [] t = pacman_tid -> "top"
                 [] t = listener_tid -> "check_lock"
                 [] OTHER -> IF t - listener_tid <= n_ghosts THEN "check_lock" ELSE "none"]
  /\ lmove' = NoMove
  /\ play' = NoKey
  /\ retval' = QUIT_GAME
  /\ flag_by' = "none"
  /\ sent_states' = {}
  /\ left_by' = "none"
  /\ written' = <<>>
  /\ overwritten' = {}
  /\ played' = <<>>
  /\ wpc' = [wpc EXCEPT ![w] = "join_pacman"]
  /\ UNCHANGED <<procVars, pipeVars, serverVars, wl, histVars>>

\* pthread_join(pacman_tid, &retval)
run_game_join_pacman(w) ==
  /\ Running(w)
  /\ wpc[w] = "join_pacman"
  /\ gpc[pacman_tid] = "done"
  /\ wpc' = [wpc EXCEPT ![w] = "stop_lock"]
  /\ UNCHANGED <<procVars, gameVars, serverVars, wl, histVars>>

\* pthread_rwlock_wrlock(&game_board->state_lock)
run_game_stop_lock(w) ==
  /\ Running(w)
  /\ wpc[w] = "stop_lock"
  /\ CanWrLock
  /\ state_lock' = [state_lock EXCEPT !.writer = Runner]
  /\ wpc' = [wpc EXCEPT ![w] = "stop"]
  /\ UNCHANGED <<procVars, pipeVars, serverVars, wl, histVars, gpc, game_board, lmove, play, retval,
                 flag_by, sent_states, left_by, written, overwritten, played>>

\* game_board->shutdown = 1 and unlock
run_game_stop(w) ==
  /\ Running(w)
  /\ wpc[w] = "stop"
  /\ game_board' = [game_board EXCEPT !.shutdown = 1]
  /\ flag_by' = IF game_board.shutdown = 0 THEN "runner" ELSE flag_by
  /\ UNCHANGED sent_states
  /\ state_lock' = Unlocked(Runner)
  /\ wpc' = [wpc EXCEPT ![w] = "join_rest"]
  /\ UNCHANGED <<left_by, procVars, pipeVars, serverVars, wl, histVars, gpc, lmove, play, retval, written,
                 overwritten, played>>

\* a run_game_logic that joins the listener and the update thread and leaves
\* the ghost threads running
run_game_return_without_ghosts(w) ==
  /\ Running(w)
  /\ wpc[w] = "join_rest"
  /\ \A t \in {listener_tid, update_tid} : gpc[t] \in {"done", "none"}
  /\ IF wl[w].my_scoreboard_idx >= 0
       THEN /\ wl' = [wl EXCEPT ![w].game_result = retval,
                                ![w].accumulated_points = game_board.points]
            /\ wpc' = [wpc EXCEPT ![w] = "score_lock"]
       ELSE /\ wl' = [wl EXCEPT ![w].game_result = retval,
                                ![w].accumulated_points = game_board.points,
                                ![w].current_level = @ + 1]
            /\ wpc' = [wpc EXCEPT ![w] = "level_loop"]
  /\ UNCHANGED <<procVars, gameVars, serverVars, histVars>>

\* the joins of the listener, the update thread and the ghosts; run_game_logic
\* returns *retval; in worker_task game_result is that value and
\* accumulated_points = board.pacmans[0].points; without a score board entry the
\* worker goes on to unload_level and current_level++
run_game_return(w) ==
  /\ Running(w)
  /\ wpc[w] = "join_rest"
  /\ \A t \in StageThreads \ {pacman_tid} : gpc[t] \in {"done", "none"}
  /\ IF wl[w].my_scoreboard_idx >= 0
       THEN /\ wl' = [wl EXCEPT ![w].game_result = retval,
                                ![w].accumulated_points = game_board.points]
            /\ wpc' = [wpc EXCEPT ![w] = "score_lock"]
       ELSE /\ wl' = [wl EXCEPT ![w].game_result = retval,
                                ![w].accumulated_points = game_board.points,
                                ![w].current_level = @ + 1]
            /\ wpc' = [wpc EXCEPT ![w] = "level_loop"]
  /\ UNCHANGED <<procVars, gameVars, serverVars, histVars>>

run_game_logic(w, ghosts) ==
  \/ \E n_moves \in 0..1, n_ghosts \in ghosts : run_game_create(w, n_moves, n_ghosts)
  \/ run_game_join_pacman(w)
  \/ run_game_stop_lock(w)
  \/ run_game_stop(w)
  \/ run_game_return(w)

(* ---- one session with its stages, thread by thread ---- *)
\* worker_task between the dequeue and the return to the queue, with
\* run_game_logic and its threads in place of WorkerRunGame and WorkerJoinGame;
\* the levels have a number of ghosts in `ghosts`
WorkerSession(w, ghosts) ==
  \/ \E o \in OpenOutcomes, n \in 1..MaxLevels : OpenPipes(w, o, n)
  \/ WorkerBoardLock(w, "register_lock", "register")
  \/ WorkerRegister(w)
  \/ \E loaded \in BOOLEAN : WorkerLevelLoop(w, loaded)
  \/ run_game_logic(w, ghosts)
  \/ WorkerBoardLock(w, "score_lock", "score")
  \/ WorkerScore(w)
  \/ WorkerBoardLock(w, "final_lock", "final")
  \/ WorkerFinal(w)

StageStep ==
  \/ input_listener_thread
  \/ update_thread
  \/ pacman_thread
  \/ \E g \in ghost_tids : ghost_thread(g)

\* the server has one worker, which has taken the record of client 1 from the
\* queue; no other client connects
InitServing(rest) ==
  /\ buffer_size = 1
  /\ session_buffer = [i \in 0..0 |-> 1]
  /\ buffer_in = 0
  /\ buffer_out = 0
  /\ sem_empty = 1
  /\ sem_full = 0
  /\ buffer_mutex = NoThread
  /\ scoreboard = [i \in 1..MaxScoreboard |-> EmptyEntry]
  /\ scoreboard_mutex = NoThread
  /\ next_client_id = 1
  /\ fifo = <<>>
  /\ unsent = rest
  /\ mpc = "read"
  /\ created = 1
  /\ req = [kind |-> "connect", client |-> 1]
  /\ wpc = [w \in Workers |-> IF w = 1 THEN "open" ELSE "uncreated"]
  /\ wl = [w \in Workers |-> IF w = 1 THEN [InitLocals EXCEPT !.session = 1] ELSE InitLocals]
  /\ sigblocked = [t \in Threads |-> t = 1]
  /\ hpc = [t \in Threads |-> "none"]
  /\ signals = 0
  /\ score_log = <<>>
  /\ logged = FALSE
  /\ enqueued = <<1>>
  /\ dequeued = <<1>>
  /\ accepted = {1}
  /\ updated = {}
  /\ closed = {}
  /\ InitProc
  /\ InitGame

InitStage == InitServing({})

NextStage ==
  \/ \E c \in Clients : ClientStep(c)
  \/ \E w \in Workers : WorkerSession(w, 0..MaxGhosts)
  \/ StageStep

SpecStage == InitStage /\ [][NextStage]_vars

(* ---- sessions whose client says nothing, and the accept loop beside them ---- *)
\* the client of the request ends between main's open(req.notif_pipe, O_WRONLY)
\* and its write of the response: nobody reads the pipe, and the write fails
\* with EPIPE when SIGPIPE is ignored and ends the process when it is not; the
\* result of the write is not looked at, and the session is enqueued
MainRespondBroken ==
  /\ Running(Main)
  /\ mpc = "respond"
  /\ client[req.client] = "up"
  /\ client' = [client EXCEPT ![req.client] = "killed"]
  /\ proc' = IF SIGPIPE_disposition = "SIG_IGN" THEN proc ELSE "sigpipe"
  /\ mpc' = "sem_wait"
  /\ UNCHANGED <<fifo_name, exit_status, stageVars, req_pipe, sent, update_msg, client_size, notif_pipe, queueVars, boardVars,
                 clientVars, created, req, wpc, wl, sigVars, histVars>>

\* a second client is about to connect; the levels have no ghosts
InitBroken == InitServing({2})

NextBroken ==
  \/ \E c \in Clients, k \in MsgKinds : ClientSend(c, k)
  \/ \E c \in Clients, how \in {"killed", "left"} : ClientEnd(c, how)
  \/ MainRead
  \/ \E ok \in BOOLEAN : MainRespond(ok)
  \/ MainRespondBroken
  \/ MainSemWait
  \/ MainLock
  \/ MainEnqueue
  \/ MainPost
  \/ \E w \in Workers : WorkerSemWait(w) \/ WorkerLock(w) \/ WorkerDequeue(w) \/ WorkerPost(w)
  \/ \E w \in Workers : WorkerSession(w, {0})
  \/ listener_loop
  \/ update_thread
  \/ pacman_thread

SpecBroken == InitBroken /\ [][NextBroken]_vars

(* ---- a session on levels without ghosts, with a client that sends requests ---- *)
NextInput ==
  \/ \E c \in Clients : ClientStep(c)
  \/ \E w \in Workers : WorkerSession(w, {0})
  \/ input_listener_thread
  \/ update_thread
  \/ pacman_thread

SpecInput == InitStage /\ [][NextInput]_vars

(* ---- a session whose client says nothing, under fair scheduling ---- *)
NextEof ==
  \/ \E c \in Clients, how \in {"killed", "left"} : ClientEnd(c, how)
  \/ \E w \in Workers : WorkerSession(w, {MaxGhosts})
  \/ listener_loop
  \/ update_thread
  \/ pacman_thread
  \/ \E g \in ghost_tids : ghost_thread(g)

\* every thread of a stage, and the worker inside run_game_logic, takes its
\* next step if that step is possible again and again: the threads sleep
\* between two uses of state_lock, so that no thread is kept from the lock for
\* ever by the others
FairStage ==
  /\ SF_vars(listener_loop)
  /\ SF_vars(update_thread)
  /\ SF_vars(pacman_thread)
  /\ \A g \in ghost_tids : SF_vars(ghost_thread(g))
  /\ \A w \in Workers : SF_vars(run_game_logic(w, {MaxGhosts}))

SpecEof == InitStage /\ [][NextEof]_vars /\ FairStage

(* ---- the same session on levels without ghosts, under fair scheduling ---- *)
NextQuiet ==
  \/ \E c \in Clients, how \in {"killed", "left"} : ClientEnd(c, how)
  \/ \E w \in Workers : WorkerSession(w, {0})
  \/ listener_loop
  \/ update_thread
  \/ pacman_thread

FairQuiet ==
  /\ SF_vars(listener_loop)
  /\ SF_vars(update_thread)
  /\ SF_vars(pacman_thread)
  /\ \A w \in Workers : SF_vars(run_game_logic(w, {0}))

SpecQuiet == InitStage /\ [][NextQuiet]_vars /\ FairQuiet

(* ---- a session whose client stops reading its notification pipe ---- *)
\* the client process is stopped (SIGSTOP): it keeps its pipes open and reads
\* nothing
ClientStop(c) ==
  /\ client[c] = "up"
  /\ c \in accepted
  /\ c \notin closed
  /\ client' = [client EXCEPT ![c] = "stopped"]
  /\ UNCHANGED <<procVars, stageVars, req_pipe, sent, update_msg, client_size, notif_pipe,
                 serverVars, wpc, wl, histVars>>

\* the client process is continued and reads what its notification pipe holds
ClientCont(c) ==
  /\ client[c] = "stopped"
  /\ client' = [client EXCEPT ![c] = "up"]
  /\ notif_pipe' = [notif_pipe EXCEPT ![c] = 0]
  /\ UNCHANGED <<procVars, stageVars, req_pipe, sent, update_msg, client_size,
                 serverVars, wpc, wl, histVars>>

NextStall ==
  \/ \E c \in Clients : ClientStop(c) \/ ClientCont(c)
  \/ \E w \in Workers : WorkerSession(w, {0})
  \/ listener_loop
  \/ update_thread
  \/ pacman_thread

SpecStall == InitStage /\ [][NextStall]_vars

(* ---- the levels of one session, each level as one run_game_logic ---- *)
\* worker_task from the search for level files to the end of the session, with
\* up to MaxStages level files that readdir returns in any order
NextLevels ==
  \E w \in Workers :
    \/ \E o \in OpenOutcomes, n \in 1..MaxStages : WorkerOpen(w, o, n)
    \/ WorkerBoardLock(w, "register_lock", "register")
    \/ WorkerRegister(w)
    \/ \E loaded \in BOOLEAN : WorkerLevelLoop(w, loaded)
    \/ WorkerRunGame(w)
    \/ \E r \in GameResults, p \in 0..MaxScore : WorkerJoinGame(w, r, p)
    \/ WorkerBoardLock(w, "score_lock", "score")
    \/ WorkerScore(w)
    \/ WorkerBoardLock(w, "final_lock", "final")
    \/ WorkerFinal(w)

SpecLevels == InitStage /\ [][NextLevels]_vars

(* ---- handle_sigusr1 alone, on every score board of ReportBoardLen entries ---- *)
\* entry i belongs to client i; an entry with score 0 that is not active stands
\* for a finished session without points and for a never used entry alike
ReportBoards ==
  { [i \in 1..ReportBoardLen |-> [client_id |-> i, score |-> f[i].score, active |-> f[i].active]] :
      f \in [1..ReportBoardLen -> [score : 0..MaxScore, active : {0, 1}]] }

InitReport ==
  /\ buffer_size = 1
  /\ session_buffer = [i \in 0..(buffer_size - 1) |-> NoSession]
  /\ buffer_in = 0
  /\ buffer_out = 0
  /\ sem_empty = buffer_size
  /\ sem_full = 0
  /\ buffer_mutex = NoThread
  /\ scoreboard \in ReportBoards
  /\ scoreboard_mutex = NoThread
  /\ next_client_id = ReportBoardLen + 1
  /\ fifo = <<>>
  /\ unsent = {}
  /\ mpc = "read"
  /\ created = buffer_size
  /\ req = [kind |-> "none", client |-> 0]
  /\ wpc = [w \in Workers |-> IF w <= buffer_size THEN "sem_wait" ELSE "uncreated"]
  /\ wl = [w \in Workers |-> InitLocals]
  /\ sigblocked = [t \in Threads |-> t # Main /\ t <= buffer_size]
  /\ hpc = [t \in Threads |-> "none"]
  /\ signals = 0
  /\ score_log = <<>>
  /\ logged = FALSE
  /\ enqueued = <<>>
  /\ dequeued = <<>>
  /\ accepted = {}
  /\ updated = {}
  /\ closed = {}
  /\ InitProc
  /\ InitGame

NextReport == SignalStep(Main)

SpecReport == InitReport /\ [][NextReport]_vars

(* ---- the cells of a state update: server_send_update and the client's decoding ---- *)
MAX_BOARD_SIZE == 2400

\* the value an int has after it is stored in an int16_t field
int16(x) == ((x + 32768) % 65536) - 32768

\* DIM lines of a level file: load_level takes height and width with atoi and
\* puts no limit on them
Widths == 1..MaxWidth
Heights == 1..MaxHeight

\* server_send_update on a board of width x height: msg.width and msg.height
\* are the board's, size = width * height is cut to MAX_BOARD_SIZE and
\* board_data[0 .. size-1] is written.  The write is taken while the client
\* waits in read(); the two steps do not depend on each other.
server_send_update_msg(width, height) ==
  /\ update_msg = NoMsg
  /\ client_size = -1
  /\ LET size == width * height
     IN update_msg' = [width |-> int16(width), height |-> int16(height),
                       cells |-> IF size > MAX_BOARD_SIZE THEN MAX_BOARD_SIZE ELSE size]
  /\ UNCHANGED <<procVars, serverVars, wpc, wl, histVars, stageVars, client, req_pipe, sent,
                 client_size, notif_pipe>>

\* the client's read(notif_fd, &msg, ...) returns the update: size =
\* msg.width * msg.height, and the loop reads msg.board_data[0 .. size-1]
client_decode ==
  /\ update_msg # NoMsg
  /\ client_size' = update_msg.width * update_msg.height
  /\ update_msg' = NoMsg
  /\ UNCHANGED <<procVars, serverVars, wpc, wl, histVars, stageVars, client, req_pipe, sent,
                 notif_pipe>>

\* the end of the body of the client's loop: temp_board is freed and the client
\* goes back to read()
client_drawn ==
  /\ client_size # -1
  /\ client_size' = -1
  /\ UNCHANGED <<procVars, serverVars, wpc, wl, histVars, stageVars, client, req_pipe, sent,
                 update_msg, notif_pipe>>

NextCells ==
  \/ \E width \in Widths, height \in Heights : server_send_update_msg(width, height)
  \/ client_decode
  \/ client_drawn

SpecCells == InitStage /\ [][NextCells]_vars


(* ---- properties ---- *)
Range(q) == {q[i] : i \in 1..Len(q)}
Occupied == Len(enqueued) - Len(dequeued)
PendingRecords == Range(enqueued) \ Range(dequeued)
InFlight ==
  (IF mpc \in {"lock", "enqueue", "post"} THEN 1 ELSE 0)
    + Cardinality({w \in Workers : wpc[w] \in {"lock", "dequeue", "post"}})
CreatedWorkers == {w \in Workers : wpc[w] # "uncreated"}

\* C1: there are never more dequeues than enqueues, no record is returned by two
\* dequeues, and no dequeue returns a slot that was never written.
C1_Delivery ==
  /\ Len(dequeued) <= Len(enqueued)
  /\ \A i, j \in 1..Len(dequeued) : i # j => dequeued[i] # dequeued[j]
  /\ \A i \in 1..Len(dequeued) : dequeued[i] # NoSession /\ dequeued[i] \in Range(enqueued)
  /\ \A v, w \in Workers : (v # w /\ wl[v].session # NoSession) => wl[v].session # wl[w].session

\* two workers hold two different records at the same time, after three dequeues
C1_Witness ==
  /\ Len(dequeued) = 3
  /\ wl[1].session # NoSession
  /\ wl[2].session # NoSession

\* C2: the records are dequeued in the order in which they were enqueued, for any
\* number of workers and across the wrap-around of buffer_in and buffer_out.
C2_Fifo ==
  /\ Len(dequeued) <= Len(enqueued)
  /\ \A i \in 1..Len(dequeued) : dequeued[i] = enqueued[i]

\* with two slots and two workers, the third record has gone through slot 0 again
C2_Witness ==
  /\ buffer_size = 2
  /\ Len(dequeued) = 3
  /\ buffer_out = 1
  /\ wl[1].session # NoSession
  /\ wl[2].session # NoSession

\* C3 as stated: sem_full + sem_empty equals buffer_size in every reachable state,
\* also between a sem_wait and the matching sem_post.
C3_SumIsCapacity == sem_full + sem_empty = buffer_size

\* C3, amended: sem_full + sem_empty plus the number of threads that are between
\* a sem_wait and the matching sem_post equals buffer_size; the two counts sum to
\* buffer_size exactly when no thread is inside an enqueue or a dequeue.
C3_SumWithInFlight ==
  /\ sem_full + sem_empty + InFlight = buffer_size
  /\ sem_full >= 0
  /\ sem_empty >= 0

\* main and a worker are both between their sem_wait and their sem_post
C3_Witness ==
  /\ mpc = "enqueue"
  /\ \E w \in Workers : wpc[w] = "post"
  /\ sem_full + sem_empty = buffer_size - 2

\* C4: main writes session_buffer[buffer_in] only when that slot holds no record
\* that still waits to be dequeued, the number of occupied slots stays within
\* 0..buffer_size, no waiting record is overwritten, and while the queue is full
\* main stays in sem_wait(&sem_empty) and takes no other step.
C4_EnqueueBlocks ==
  /\ Occupied \in 0..buffer_size
  /\ mpc = "enqueue" => session_buffer[buffer_in] \notin PendingRecords
  /\ \A r \in PendingRecords : \E i \in DOMAIN session_buffer : session_buffer[i] = r
  /\ (mpc = "sem_wait" /\ Occupied = buffer_size) => ~ENABLED MainStep

\* both slots hold a waiting record and main is blocked with a third one
C4_Witness ==
  /\ buffer_size = 2
  /\ Occupied = 2
  /\ mpc = "sem_wait"
  /\ req.client \notin Range(enqueued)

AcceptedWaiting == accepted \ Range(dequeued)

\* C5 as stated: the sessions that were sent result 0 and are not dequeued yet
\* are at most buffer_size.
C5_AtMostCapacity == Cardinality(AcceptedWaiting) <= buffer_size

\* C5, amended: the sessions that were sent result 0 and are not dequeued yet are
\* at most buffer_size + 1: buffer_size in the queue and one that main has
\* answered and holds while it waits in sem_wait(&sem_empty); buffer_size is
\* also the number of workers.
C5_AtMostCapacityPlusOne ==
  /\ Cardinality(AcceptedWaiting) <= buffer_size + 1
  /\ Cardinality(PendingRecords) <= buffer_size
  /\ mpc # "create_threads" => Cardinality(CreatedWorkers) = buffer_size

\* the queue is full and main holds one more answered session
C5_Witness ==
  /\ buffer_size = 2
  /\ Cardinality(AcceptedWaiting) = 3
  /\ mpc = "sem_wait"

\* C6: under fair scheduling a record in the queue is dequeued when a worker
\* waits in dequeue, main's enqueue completes once a slot has been freed, and no
\* thread waits on a semaphore while it holds buffer_mutex.  Each dequeue adds
\* one record to dequeued, so the parity of its length changes exactly when a
\* record is dequeued; main is at "post" exactly when it has just written its
\* record into the queue.
C6_NoMissedWakeup ==
  /\ \A b \in 0..1 :
       (/\ Len(enqueued) > Len(dequeued)
        /\ Len(dequeued) % 2 = b
        /\ \E w \in Workers : wpc[w] = "sem_wait")
         ~> (Len(dequeued) % 2 # b)
  /\ (mpc = "sem_wait" /\ Occupied < buffer_size) ~> (mpc = "post")
  /\ [](/\ mpc = "sem_wait" => buffer_mutex # Main
        /\ \A w \in Workers : wpc[w] = "sem_wait" => buffer_mutex # w)

\* main is blocked on the full queue and a worker has just copied a record out
C6_Witness ==
  /\ mpc = "sem_wait"
  /\ sem_empty = 0
  /\ Occupied = buffer_size - 1
  /\ \E w \in Workers : wpc[w] = "post"

\* C7: with one worker, a record is not dequeued and its client gets no state
\* update before the worker has left every session enqueued before it.
C7_OneWorker ==
  buffer_size = 1 =>
    /\ \A i \in 2..Len(dequeued) : dequeued[i - 1] \in closed
    /\ \A j \in 1..Len(enqueued) :
         enqueued[j] \in updated => \A k \in 1..(j - 1) : enqueued[k] \in closed

\* with one worker, the second accepted client has been dequeued and updated
C7_Witness ==
  /\ buffer_size = 1
  /\ Len(dequeued) >= 2
  /\ dequeued[1] \in accepted /\ dequeued[1] \in updated
  /\ dequeued[2] \in accepted /\ dequeued[2] \in updated

\* C8: handle_sigusr1 never runs on a worker thread, at any point of its life.
C8_HandlerOnlyOnMain == \A w \in Workers : hpc[w] = "none"

\* C9: the report has at most five entries, in non-increasing score order, each
\* active or with a score above 0, and no such entry that is left out has a
\* higher score than a listed one.
C9_Report ==
  logged =>
    /\ Len(score_log) <= 5
    /\ \A i, j \in 1..Len(score_log) : i < j => score_log[i].score >= score_log[j].score
    /\ \A i \in 1..Len(score_log) : score_log[i].score > 0 \/ score_log[i].active = 1
    /\ \A i \in 1..Len(score_log) : \E k \in DOMAIN scoreboard : scoreboard[k] = score_log[i]
    /\ \A i, j \in 1..Len(score_log) : i # j => score_log[i].client_id # score_log[j].client_id
    /\ \A k \in DOMAIN scoreboard :
         (/\ scoreboard[k].score > 0 \/ scoreboard[k].active = 1
          /\ scoreboard[k] \notin Range(score_log))
           => \A i \in 1..Len(score_log) : scoreboard[k].score <= score_log[i].score

\* six entries qualify, with different scores, and five are listed
C9_Witness ==
  /\ logged
  /\ Len(score_log) = 5
  /\ \A k \in DOMAIN scoreboard : scoreboard[k].score > 0 \/ scoreboard[k].active = 1
  /\ score_log[1].score > score_log[5].score

\* C10: every client listed in the report has an active session when the report
\* is written, and the listed clients are the active clients with the highest scores.
C10_OnlyActiveListed ==
  logged =>
    /\ \A i \in 1..Len(score_log) : score_log[i].active = 1
    /\ Len(score_log) <= 5

\* C11: a SIGUSR1 handled by main never stops the server: after the handler has
\* returned main is still in its accept loop, no request or waiting record is
\* lost, and the indices and semaphore counts of the queue are those of a run
\* without the signal.
C11_ReportKeepsServing ==
  /\ proc = "running"
  /\ sem_full + sem_empty + InFlight = buffer_size
  /\ \A r \in PendingRecords : \E i \in DOMAIN session_buffer : session_buffer[i] = r

\* C12: when SIGINT or SIGTERM is handled, in any state of the server, the name
\* of the registration FIFO is removed and the process exits with status 0; the
\* handler waits for no session, worker or request.
C12_Shutdown ==
  /\ proc = "exit_cleanup" => (~fifo_name /\ exit_status = 0)
  /\ proc = "running" => (fifo_name /\ exit_status = -1)
  /\ proc = "running" => \A t \in Threads : Alive(t) => ENABLED handle_cleanup(t)

\* the process has exited while a worker held a session, another worker waited
\* for a record and main waited for a request
C12_Witness ==
  /\ proc = "exit_cleanup"
  /\ \E w \in Workers : wpc[w] = "open" /\ wl[w].session # NoSession
  /\ \E w \in Workers : wpc[w] = "sem_wait" /\ sem_full = 0
  /\ BlockedInRead

\* C13: a write by the update thread or by the accept loop to a pipe that nobody
\* reads any more never ends the server: the process is running with no exit
\* status, and the accept loop can take the next request whenever one is in
\* the registration FIFO.
C13_BrokenChannel ==
  /\ proc = "running"
  /\ exit_status = -1
  /\ (mpc = "read" /\ fifo # <<>>) => ENABLED MainRead

\* the first update of a stage went to a client that was gone, and the response
\* to client 2 was written after client 2 had ended; its session is in the queue
C13_Witness ==
  /\ \E w \in Workers : /\ wpc[w] \in InStage
                        /\ gpc[update_tid] = "lock"
                        /\ wl[w].session \notin updated
                        /\ client[wl[w].session] = "killed"
  /\ client[2] = "killed"
  /\ 2 \notin accepted
  /\ 2 \in Range(enqueued)

\* C14: no worker is lost to a client that ended after its handshake: a worker
\* that has taken the record of such a client and finds the levels directory
\* in order gets past the opening of the client's pipes, with success or with
\* an error, and so goes on towards the next dequeue.
C14_NoWorkerLost ==
  \A w \in Workers :
    (wpc[w] = "open" /\ client[wl[w].session] # "up") => ENABLED OpenDecided(w)

\* C15: a read of 0 bytes makes the listener set board->shutdown while it holds
\* state_lock for writing and then end; after that read the stage ends, that
\* is run_game_logic returns to the worker.
C15_EofEndsStage ==
  /\ [](gpc[listener_tid] = "eof" => state_lock.writer = listener_tid)
  /\ []((lmove.n = 0 /\ gpc[listener_tid] = "done") => game_board.shutdown = 1)
  /\ [](lmove.n = 0 => gpc[listener_tid] \in {"eof_lock", "eof", "done"})
  /\ (gpc[listener_tid] = "eof_lock") ~> (gpc[listener_tid] = "done")
  /\ (gpc[listener_tid] = "eof_lock") ~> (\A w \in Workers : wpc[w] \notin InStage)

\* the listener has read 0 bytes from a client that was killed in mid-stage, and
\* the stage has ended with the flag set by the listener
C15_Witness ==
  /\ lmove.n = 0
  /\ gpc[listener_tid] = "done"
  /\ flag_by = "listener"
  /\ client[1] = "killed"
  /\ \E w \in Workers : wpc[w] \in {"score_lock", "level_loop"}

\* what the listener has just read: fewer bytes than a move_req_t, or a whole
\* message with an op_code that is neither OP_MOVE nor OP_DISCONNECT
ShortOrUnknown(m) ==
  \/ m.n \in 1..(sizeof_move_req_t - 1)
  \/ m.n = sizeof_move_req_t /\ m.op_code \notin {OP_MOVE, OP_DISCONNECT}

\* C16: a short read and a message with an unknown op_code change neither
\* board->shutdown nor next_user_move and are not taken for the end of the
\* stream: the listener is on its way to set the flag only after a read of 0
\* bytes or a whole disconnect message, to write the mailbox only after a
\* whole move message, and after a short or unknown read it is back at the
\* top of its loop, from where it reads again.
C16_BadReadIgnored ==
  /\ [](gpc[listener_tid] \in {"eof_lock", "eof"} => lmove.n = 0)
  /\ [](gpc[listener_tid] \in {"disc_lock", "disc"} =>
          lmove.n = sizeof_move_req_t /\ lmove.op_code = OP_DISCONNECT)
  /\ [](gpc[listener_tid] \in {"move_lock", "move"} =>
          lmove.n = sizeof_move_req_t /\ lmove.op_code = OP_MOVE)
  /\ [][(gpc[listener_tid] = "read" /\ gpc'[listener_tid] # "read" /\ ShortOrUnknown(lmove'))
          => (game_board' = game_board /\ gpc'[listener_tid] = "check_lock")]_vars

\* after a read of one byte the listener is at its read again, with the flag
\* not set, the mailbox empty and the next message in the pipe
C16_Witness ==
  /\ lmove.n = 1
  /\ gpc[listener_tid] = "read"
  /\ game_board.shutdown = 0
  /\ game_board.next_user_move = NoKey
  /\ req_pipe[1] # <<>>

\* C17: once the listener has read a disconnect request in its wire layout, the
\* single byte OP_DISCONNECT, it is on its way to set board->shutdown and end,
\* or has done so.
C17_DisconnectRead ==
  (lmove.n = sizeof_disconnect_req_t /\ lmove.op_code = OP_DISCONNECT)
    => gpc[listener_tid] \in {"disc_lock", "disc", "done"}

\* C19: next_user_move holds the key written last; a key that was replaced in
\* it before the driver's selection is never passed to move_pacman; and a
\* selection that finds a key takes the key written last and empties the
\* mailbox.
C19_LastWriteWins ==
  /\ [](game_board.next_user_move \notin {NoKey, NulKey} =>
          written # <<>> /\ game_board.next_user_move = written[Len(written)])
  /\ [](\A k \in overwritten : k \notin Range(played) /\ play # k)
  /\ [][(gpc[pacman_tid] = "select" /\ gpc'[pacman_tid] # "select"
           /\ game_board.next_user_move \notin {NoKey, NulKey})
          => (play' = written[Len(written)] /\ game_board'.next_user_move = NoKey)]_vars

\* the first key was replaced by the second before the driver looked, and the
\* second was passed to move_pacman
C19_Witness ==
  /\ overwritten = {Key(1)}
  /\ played = <<Key(2)>>

\* worker w is past a run_game_logic of its session: game_result is the
\* outcome of the stage that ended last
StageOver(w) ==
  \/ wpc[w] \in {"score_lock", "score"}
  \/ wpc[w] \in {"level_loop", "final_lock", "final"} /\ wl[w].current_level > 0

\* C18: a stage in which the listener has set board->shutdown ends with
\* QUIT_GAME, the worker starts no further stage after it, and the worker has
\* closed both descriptors when it is back at the dequeue.
C18_ListenerFlagQuits ==
  \A w \in Workers :
    /\ (flag_by = "listener" /\ StageOver(w)) => wl[w].game_result = QUIT_GAME
    /\ (flag_by = "listener" /\ wl[w].current_level > 0) => wpc[w] # "run_game"
    /\ wpc[w] = "sem_wait" => (~wl[w].notif_fd /\ ~wl[w].req_fd)

\* the threads that are inside a section of code between a wrlock, or an
\* rdlock, of state_lock and its unlock; the worker in run_game_logic is Runner
Writers ==
  {t \in StageThreads : gpc[t] \in {"eof", "move", "disc", "select"}}
    \cup (IF \E w \in Workers : wpc[w] = "stop" THEN {Runner} ELSE {})
Readers == {t \in StageThreads : gpc[t] \in {"check", "first_send", "send"}}

\* C20: at most one thread is in a section under the write lock, and while one
\* is, no thread is in a section under the read lock; state_lock records
\* exactly the threads that are in such sections.
C20_LockExclusive ==
  /\ Cardinality(Writers) <= 1
  /\ Writers # {} => Readers = {}
  /\ state_lock.readers = Readers
  /\ state_lock.writer = (IF Writers = {} THEN NoThread ELSE CHOOSE t \in Writers : TRUE)

\* the update thread and a ghost read the board at the same time, and
\* move_pacman waits for the write lock
C20_Witness ==
  /\ gpc[update_tid] = "send"
  /\ \E g \in ghost_tids : gpc[g] = "check"
  /\ gpc[pacman_tid] = "move_lock"
  /\ IsUserKey(play) \/ play = ScriptKey

\* worker w runs a session: it has taken a record from the queue and has not
\* yet closed the session's pipes or given the session up
Serving(w) ==
  wpc[w] \in {"post", "open", "register_lock", "register", "level_loop", "run_game",
              "join_game", "score_lock", "score"} \cup InStage

\* C21: at most max_games sessions are being run; a session that was dequeued
\* and is not closed is run by exactly one worker, and a session that is run
\* was dequeued and is not closed; no two workers run the same session.
C21_SessionLimit ==
  /\ Cardinality({w \in Workers : Serving(w)}) <= buffer_size
  /\ \A w \in Workers : Serving(w) => wl[w].session \in Range(dequeued) \ closed
  /\ \A s \in Range(dequeued) \ closed :
       Cardinality({w \in Workers : Serving(w) /\ wl[w].session = s}) = 1

\* max_games sessions are being run, one per worker, while a further record
\* waits in the queue
C21_Witness ==
  /\ buffer_size = MaxGames
  /\ \A w \in Workers : wpc[w] = "join_game"
  /\ PendingRecords # {}

\* C22: a selection of the driver that finds a command of the listener in
\* next_user_move takes that command, not the script's, and empties
\* next_user_move in the same step, which it takes holding the write lock;
\* the command selected is the one move_pacman is called with; and no command
\* the listener wrote is passed to move_pacman in more than one cycle.
C22_MailboxFirst ==
  /\ [][(gpc[pacman_tid] = "select" /\ gpc'[pacman_tid] # "select"
           /\ game_board.next_user_move # NoKey)
          => /\ state_lock.writer = pacman_tid
             /\ play' = game_board.next_user_move
             /\ game_board'.next_user_move = NoKey]_vars
  /\ [][gpc[pacman_tid] \in {"move_lock", "move"} => play' = play]_vars
  /\ [](\A i, j \in 1..Len(played) : played[i] = played[j] => i = j)
  /\ [](Range(played) \subseteq Range(written))

\* on a level with a script, a command of the client has been passed to
\* move_pacman
C22_Witness ==
  /\ game_board.n_moves > 0
  /\ played # <<>>
  /\ game_board.next_user_move = NoKey

\* the value pacman_thread stores in *retval for each way of leaving its loop
ResultOf(how) ==
  CASE how = "portal" -> NEXT_LEVEL
    [] how \in {"dead", "top"} -> LOAD_BACKUP
    [] how = "flag" -> QUIT_GAME

\* C23: when the driver has ended, *retval is NEXT_LEVEL exactly if its last
\* move_pacman returned REACHED_PORTAL, LOAD_BACKUP exactly if its last
\* move_pacman returned DEAD_PACMAN or it found the pacman dead at the top of
\* its loop, and QUIT_GAME exactly if it left the loop on seeing
\* board->shutdown; the driver ends in no other way, and the game_result the
\* worker gets from run_game_logic is that value.
C23_ResultOfDriver ==
  /\ gpc[pacman_tid] = "done" =>
        /\ left_by \in {"portal", "dead", "top", "flag"}
        /\ retval = ResultOf(left_by)
  /\ gpc[pacman_tid] \notin {"done", "none"} => left_by = "none"
  /\ \A w \in Workers : StageOver(w) =>
        /\ gpc[pacman_tid] = "done"
        /\ wl[w].game_result = retval

\* run_game_logic has returned LOAD_BACKUP for a driver that found the pacman
\* dead at the top of its loop, killed by a ghost after a move that went well
C23_Witness ==
  \E w \in Workers :
    /\ StageOver(w)
    /\ left_by = "top"
    /\ wl[w].game_result = LOAD_BACKUP

\* no worker is inside run_game_logic
NoStage == \A w \in Workers : wpc[w] \notin InStage

\* C24: outside run_game_logic, that is before the first stage, between two
\* stages (unload_level) and after the last, every thread of a stage has
\* ended and nobody holds state_lock; run_game_logic returns from a state in
\* which the driver, the listener, the update thread and every ghost thread
\* have ended.
C24_ReturnAfterJoins ==
  /\ [](NoStage => /\ \A t \in StageThreads : gpc[t] \in {"none", "done"}
                   /\ state_lock = [writer |-> NoThread, readers |-> {}])
  /\ [][\A w \in Workers :
          (wpc[w] = "join_rest" /\ wpc'[w] # "join_rest")
            => \A t \in StageThreads : gpc[t] \in {"none", "done"}]_vars

\* run_game_logic has returned from a stage with a ghost, whose thread ended
C24_Witness ==
  /\ NoStage
  /\ \E w \in Workers : StageOver(w)
  /\ game_board.n_ghosts = MaxGhosts
  /\ \A t \in StageThreads : gpc[t] = "done"

\* C25: board->shutdown goes from 0 to 1 only in a step of the listener that
\* follows a read of 0 bytes or a disconnect request, or in the step of
\* run_game_logic that follows the join of the driver; both are taken under
\* the write lock.  No step of the update thread, the driver or a ghost
\* changes it, and it goes back to 0 only when run_game_logic starts a stage.
C25_FlagSetters ==
  /\ [][(game_board.shutdown = 0 /\ game_board'.shutdown = 1) =>
          \/ /\ gpc[listener_tid] \in {"eof", "disc"}
             /\ gpc'[listener_tid] = "done"
             /\ state_lock.writer = listener_tid
             /\ flag_by' = "listener"
          \/ /\ \E w \in Workers : wpc[w] = "stop" /\ wpc'[w] = "join_rest"
             /\ gpc[pacman_tid] = "done"
             /\ state_lock.writer = Runner
             /\ flag_by' = "runner"]_vars
  /\ [][(\E t \in StageThreads \ {listener_tid} : gpc'[t] # gpc[t] /\ gpc[t] \notin {"none", "done"})
          => game_board'.shutdown = game_board.shutdown]_vars
  /\ [][(game_board.shutdown = 1 /\ game_board'.shutdown = 0) =>
          \E w \in Workers : wpc[w] = "run_game" /\ wpc'[w] = "join_pacman"]_vars

\* a ghost killed the pacman, the driver ended, and run_game_logic set
\* board->shutdown while the listener was still waiting for the client
C25_Witness ==
  /\ flag_by = "runner"
  /\ game_board.shutdown = 1
  /\ game_board.alive = 0
  /\ gpc[listener_tid] \notin {"done", "none"}

\* thread t is at a point of its code where its next step reads fields of the
\* board that another thread writes: the driver at the top of its loop
\* (pacman->alive), in its selection, in move_pacman and at its check of
\* shutdown; the listener and a ghost at their checks of shutdown; a ghost in
\* move_ghost; the update thread in server_send_update
ReadsBoard(t) ==
  CASE t = pacman_tid -> gpc[t] \in {"top", "select", "move", "check"}
    [] t = listener_tid -> gpc[t] = "check"
    [] t = update_tid -> gpc[t] \in {"first_send", "send"}
    [] OTHER -> gpc[t] \in {"check", "move"}

\* thread t is at a point where its next step writes the board
WritesBoard(t) ==
  CASE t = pacman_tid -> gpc[t] \in {"select", "move"}
    [] t = listener_tid -> gpc[t] \in {"eof", "disc", "move"}
    [] t = update_tid -> FALSE
    [] OTHER -> gpc[t] = "move"

HoldsRead(t) == t \in state_lock.readers \/ state_lock.writer = t
HoldsWrite(t) == state_lock.writer = t

\* C26: a thread that is about to read the shared state of the stage holds
\* state_lock for reading or writing, and a thread that is about to write it
\* holds state_lock for writing.
C26_AccessUnderLock ==
  \A t \in StageThreads :
    /\ ReadsBoard(t) => HoldsRead(t)
    /\ WritesBoard(t) => HoldsWrite(t)

\* C27: a worker that finds no levels directory or no level file goes from the
\* search straight back to sem_wait: the step takes no client id and no score
\* board entry, leaves the worker without an open descriptor, starts no stage
\* for the session, and changes nothing of the queue, of main or of another
\* worker; the session had no stage before it either.
C27_NoStageNoSession ==
  /\ [][\A w \in Workers : (wpc[w] = "open" /\ wpc'[w] = "sem_wait") =>
          /\ UNCHANGED <<scoreboard, scoreboard_mutex, next_client_id>>
          /\ ~wl'[w].notif_fd /\ ~wl'[w].req_fd
          /\ wl'[w].my_scoreboard_idx = -1 /\ wl'[w].my_client_id = 0
          /\ wl[w].session \in closed' \ updated'
          /\ \A v \in Workers \ {w} : wpc'[v] = wpc[v] /\ wl'[v] = wl[v]
          /\ UNCHANGED <<queueVars, mainVars, clientVars>>]_vars
  /\ [](\A w \in Workers : wpc[w] = "sem_wait" => ~wl[w].notif_fd /\ ~wl[w].req_fd)

\* a worker gave up the first session it dequeued and is back at sem_wait, with
\* no client id taken, while the other worker runs a stage of a later session
\* and main has a further record to enqueue
C27_Witness ==
  \E w, v \in Workers :
    /\ wpc[w] = "sem_wait"
    /\ dequeued # <<>> /\ dequeued[1] \in closed \ updated
    /\ wpc[v] = "join_game"
    /\ wl[v].my_client_id = 1
    /\ mpc = "sem_wait"

\* worker w is between a load_level that succeeded and the current_level++
\* that follows the level
InLevel(w) == wpc[w] \in {"run_game", "join_game", "score_lock", "score"} \cup InStage

\* C28: the level files of a session are in ascending order of their names;
\* the levels the worker has run are the first ones of that order, one after
\* the other, so none twice; a level is started only while game_result is
\* NEXT_LEVEL (the result of the level before it, if any) and a further file
\* exists; and when the loop is left, by a result other than NEXT_LEVEL, a
\* load_level that fails or the end of the files, the session is closed.
C28_StagesInOrder ==
  /\ [](\A w \in Workers :
          /\ Len(wl[w].level_files) = wl[w].level_count
          /\ \A i, j \in 1..wl[w].level_count :
               i < j => wl[w].level_files[i] < wl[w].level_files[j]
          /\ Len(wl[w].ran) <= wl[w].level_count
          /\ wl[w].ran = SubSeq(wl[w].level_files, 1, Len(wl[w].ran))
          /\ Len(wl[w].ran) = wl[w].current_level + (IF InLevel(w) THEN 1 ELSE 0)
          /\ wl[w].game_result # NEXT_LEVEL => wpc[w] \notin {"run_game", "join_game"})
  /\ [][\A w \in Workers :
          Len(wl'[w].ran) > Len(wl[w].ran) =>
            /\ wl[w].game_result = NEXT_LEVEL
            /\ wl[w].current_level < wl[w].level_count
            /\ wl'[w].ran = Append(wl[w].ran, wl[w].level_files[wl[w].current_level + 1])]_vars
  /\ [][\A w \in Workers :
          (wpc[w] = "level_loop" /\ wpc'[w] \notin {"level_loop", "run_game"}) =>
            /\ wpc'[w] \in {"final_lock", "sem_wait"}
            /\ wl[w].session \in closed']_vars

\* a session with MaxStages level files has run them all and is closed
C28_Witness ==
  \E w \in Workers :
    /\ wpc[w] = "final_lock"
    /\ Len(wl[w].ran) = MaxStages
    /\ wl[w].ran = wl[w].level_files
    /\ wl[w].session \in closed

\* the workers that have a score board entry: registered with an index, and
\* not yet through the block that finalizes the entry
Registered == {w \in Workers : wl[w].my_scoreboard_idx >= 0}

\* C29: the entry of a registered session carries its client id and is active
\* until the session ends; its score is 0 until the first level has ended, and
\* after the score update of a level it is the points the pacman had at the end
\* of that level, which are the points the next level starts with; an entry is
\* active only while a session owns it, and it becomes inactive in the step
\* that ends the session; the score board changes only in steps of a worker
\* that holds scoreboard_mutex and releases it.
C29_EntryFollowsSession ==
  /\ [](\A w \in Registered :
          LET e == scoreboard[wl[w].my_scoreboard_idx] IN
            /\ e.client_id = wl[w].my_client_id
            /\ e.active = 1
            /\ wl[w].ran = <<>> => e.score = 0
            /\ wpc[w] \in {"level_loop", "run_game", "final_lock", "final"}
                 => e.score = wl[w].accumulated_points
            /\ e.score <= wl[w].accumulated_points)
  /\ [](\A i \in DOMAIN scoreboard :
          scoreboard[i].active = 1 =>
            Cardinality({w \in Registered : wl[w].my_scoreboard_idx = i}) = 1)
  /\ [][\A i \in DOMAIN scoreboard :
          (scoreboard[i].active = 1 /\ scoreboard'[i].active = 0) =>
            \E w \in Workers :
              /\ wl[w].my_scoreboard_idx = i
              /\ wpc[w] = "final" /\ wpc'[w] = "sem_wait"
              /\ wl[w].session \in closed
              /\ scoreboard'[i].score = wl[w].accumulated_points]_vars
  /\ [][scoreboard' # scoreboard =>
          \E w \in Workers :
            /\ scoreboard_mutex = w
            /\ scoreboard_mutex' = NoThread
            /\ wpc[w] \in {"register", "score", "final"}]_vars

\* the second level of a session is about to start with the points of the
\* first, and the entry of the session shows them
C29_Witness ==
  \E w \in Registered :
    /\ wpc[w] = "run_game"
    /\ wl[w].current_level = 1
    /\ wl[w].accumulated_points = MaxScore
    /\ scoreboard[wl[w].my_scoreboard_idx] =
         [client_id |-> wl[w].my_client_id, score |-> MaxScore, active |-> 1]

\* main is in its accept loop, at the read or in the handshake and enqueue
\* that follow a request
InAcceptLoop ==
  /\ proc = "running"
  /\ mpc \in {"read", "respond", "sem_wait", "lock", "enqueue", "post"}

\* C30: a read that returns one connect request is followed by the handshake
\* for that request, and any other read leaves main at the read with nothing
\* answered and nothing enqueued; a response is written only in the handshake
\* step, to the client of the request, and main goes on to the enqueue; the
\* record enqueued is the one of the request, after its response and once; and
\* a read never takes main out of its accept loop.
C30_HandshakeStep ==
  /\ [][(mpc = "read" /\ Len(fifo') < Len(fifo)) =>
          IF Head(fifo).kind = "connect"
            THEN mpc' = "respond" /\ req' = Head(fifo)
            ELSE mpc' = "read" /\ UNCHANGED <<accepted, enqueued, queueVars>>]_vars
  /\ [][accepted' # accepted =>
          /\ mpc = "respond" /\ mpc' = "sem_wait"
          /\ accepted' = accepted \cup {req.client}]_vars
  /\ [][enqueued' # enqueued =>
          /\ enqueued' = Append(enqueued, req.client)
          /\ req.client \in accepted
          /\ req.client \notin Range(enqueued)]_vars
  /\ [][(mpc = "read" /\ InAcceptLoop) => InAcceptLoop']_vars

\* the result codes of the connect responses client c has been sent: main
\* writes {.op_code = OP_CONNECT, .result = 0} and nothing else
Responses(c) == IF c \in accepted THEN {0} ELSE {}

\* C31: the client of a session that a worker gave up before any stage of it
\* ran (no levels directory, no level file, a pipe that cannot be opened, a
\* first level that cannot be loaded) has been sent a connect response with a
\* result other than 0.
C31_FailureReported ==
  \A c \in closed \ updated : \E r \in Responses(c) : r # 0

\* C32: the number of cells the server has written into a state update and the
\* number of cells the client reads from one are at most MAX_BOARD_SIZE, for
\* every board size.
C32_CellsWithinArray ==
  /\ update_msg.cells <= MAX_BOARD_SIZE
  /\ client_size <= MAX_BOARD_SIZE

\* C33: a selection of the driver in a stage in which the listener has written
\* no command yet passes the level's scripted command if the level has a
\* script, and ' ' if it has none.
C33_EmptyMailboxScript ==
  [][(gpc[pacman_tid] = "select" /\ gpc'[pacman_tid] # "select" /\ written = <<>>)
       => play' = IF game_board.n_moves > 0 THEN ScriptKey ELSE NoKey]_vars

\* C34: a call of move_pacman with a command that the driver took out of the
\* mailbox is not skipped by the step-delay counter: when the call is made for
\* a living pacman with a key of the client, waiting is 0.
C34_ConsumedCommandActed ==
  [][(gpc[pacman_tid] = "move" /\ gpc'[pacman_tid] # "move" /\ IsUserKey(play)
        /\ game_board.alive = 1)
       => game_board.waiting = 0]_vars

\* C35: once the driver of a stage has ended, run_game_logic returns to the
\* worker, also when the client writes nothing more to its request pipe and
\* keeps it open.
C35_StageReturns ==
  (StageRuns /\ gpc[pacman_tid] = "done") ~> (\A w \in Workers : wpc[w] \notin InStage)

\* C36: when the update thread has ended in a stage that the pacman left
\* through the portal, it has sent an update with game_state WIN in that
\* stage; when the pacman was killed, one with game_state GAME_OVER.
C36_FinalStateSent ==
  gpc[update_tid] = "done" =>
    /\ left_by = "portal" => GAME_STATE_WIN \in sent_states
    /\ left_by \in {"dead", "top"} => GAME_STATE_GAME_OVER \in sent_states

\* C37: no thread of a stage holds state_lock while it waits in a write to the
\* notification pipe: the update thread is never between its rdlock and its
\* unlock with a write that waits for a client that does not read.
C37_NoLockWhileBlocked ==
  ~ /\ StageRuns
    /\ update_tid \in state_lock.readers
    /\ gpc[update_tid] = "first_send" \/ (gpc[update_tid] = "send" /\ game_board.shutdown = 0)
    /\ WriteBlocks(StageClient)

\* C38: no thread of the server holds two of buffer_mutex, scoreboard_mutex
\* and a session's state_lock at the same time.
C38_OneLockAtATime ==
  /\ \A t \in Threads : ~(buffer_mutex = t /\ scoreboard_mutex = t)
  /\ \A w \in Workers : wpc[w] = "stop" => (buffer_mutex # w /\ scoreboard_mutex # w)

NextInLine(c) ==
  /\ mpc = "respond"
  /\ req.client # c
  /\ fifo # <<>>
  /\ Head(fifo) = [kind |-> "connect", client |-> c]

\* main has read the request of client c and is past its open, write and close
Answered(c) == req.client = c /\ mpc # "respond"

\* C40: when main is at the open for one client and the connect request of the
\* next client waits in the registration FIFO, main comes to read and answer
\* that request, whether or not the first client ever opens its notification
\* pipe.
C40_NextClientAnswered ==
  \A c \in Clients : NextInLine(c) ~> (Answered(c) \/ client[c] # "up")

====
